---- MODULE Spec2Model ----
(***************************************************************************)
(* ThinkPad embedded-controller access: the row protocol engine and        *)
(* prefetch cache of thinkpad_ec.c, the controller lock, and the consumers *)
(* of tp_smapi.c and hdaps.c, against a simulated embedded controller that *)
(* records every port access.                                              *)
(***************************************************************************)
EXTENDS Integers, Sequences, FiniteSets, TLC

(***************************************************************************)
(* Bounds of the model                                                     *)
(***************************************************************************)
\* the clock runs from INITIAL_JIFFIES to INITIAL_JIFFIES + MaxTicks
MaxTicks == 4
\* largest number of status reads for which the EC stays in one reply phase
MaxLat == 1
\* timer interrupts per second of the build
HZ == 20
\* what the EC shows in the low four bits of STR3 (less than 16)
LowBits == 5
\* the count of the controller lock is followed up to MaxSem
MaxSem == 2

(***************************************************************************)
(* Program constants                                                       *)
(***************************************************************************)
TPC_STR3_PORT == 5636
TPC_TWR0_PORT == 5648
TPC_TWR15_PORT == 5663
TP_CONTROLLER_ROW_LEN == 16

H8S_STR3_IBF3B == 128
H8S_STR3_OBF3B == 64
H8S_STR3_MWMF == 32
H8S_STR3_SWMF == 16
H8S_STR3_MASK == 240

TPC_READ_RETRIES == 150
TPC_READ_NDELAY == 500
TPC_REQUEST_RETRIES == 100
TPC_REQUEST_NDELAY == 10
TPC_PREFETCH_TIMEOUT == HZ \div 10

\* jiffies.h: the 64-bit clock starts at (unsigned int)(-300*HZ), five minutes
\* before the 32-bit wrap.  Clock values are counted here from 2^32 - 600*HZ;
\* the 64-bit sums below stay far from 2^64, so no sum wraps.
INITIAL_JIFFIES == 300 * HZ
TPC_PREFETCH_NONE == INITIAL_JIFFIES
TPC_PREFETCH_JUNK == INITIAL_JIFFIES + 1

\* errno values, returned negated
EIO == 5
EBUSY == 16
EINVAL == 22
ENODATA == 61
EINTR == 4
ENXIO == 6
ENOSYS == 38
ENODEV == 19

\* hdaps.c
HDAPS_IDX_STATE == 1
STATE_HAVE_POS == 1
READ_TIMEOUT_MSECS == 100
RETRY_MSECS == 3
HDAPS_POLL_PERIOD == HZ \div 20
\* tp_smapi.c
SMAPI_MAX_RETRIES == 10

(***************************************************************************)
(* Bytes, masks and rows                                                   *)
(***************************************************************************)
\* x & bit, for a single-bit constant
HasBit(x, bit) == (x \div bit) % 2 = 1
\* (mask >> i) & 1
MaskBit(mask, i) == (mask \div (2 ^ i)) % 2 = 1
\* inb(TPC_STR3_PORT) & H8S_STR3_MASK
Str3Mask(b) == b - (b % 16)

\* struct thinkpad_ec_row
Row(mask, val) == [mask |-> mask, val |-> val]

(***************************************************************************)
(* The simulated embedded controller (the environment of the driver).      *)
(* phase   where the EC is in a transaction; its STR3 pattern is           *)
(*         PhaseSTR3[phase]                                                 *)
(* dwell   status reads the EC still spends in the current reply phase     *)
(* lat     the reply latency: status reads spent in each of the phases ibf *)
(*         and quiet, and one less than those spent in the phase reply     *)
(* hang    the phase, if any, the firmware never leaves                    *)
(* stuck   -1, or the STR3 pattern a wedged EC shows on every read         *)
(* weird   -1, or the STR3 pattern the EC shows in place of the usual one  *)
(*         while it is in the phase hang                                   *)
(* fn,term the function and terminator bytes of the latched request        *)
(***************************************************************************)
Patterns == {16 * k : k \in 0..15}
Phases == {"idle", "arg0", "ibf", "quiet", "reply", "ready"}
PhaseSTR3 == [idle |-> 0, arg0 |-> H8S_STR3_MWMF,
              ibf |-> H8S_STR3_IBF3B + H8S_STR3_MWMF, quiet |-> 0,
              reply |-> H8S_STR3_SWMF,
              ready |-> H8S_STR3_OBF3B + H8S_STR3_SWMF]
Junk == 255
Stale == 238

\* the byte the EC puts in slot i of its reply to request (fn, term); the
\* answer to the accelerometer latch check (0x13) is status 0x01, end 0x00
ECReply(fn, term, i) ==
    IF fn = 19 THEN (IF i = 1 THEN 1 ELSE 0)
    ELSE (fn * 7 + term * 3 + i) % 256

ECSight(e, ph) == IF ph = "reply" THEN e.lat + 1 ELSE e.lat

\* enter phase ph, or the first later phase the EC can be seen in
ECEnter(e, ph) ==
    LET order == <<"ibf", "quiet", "reply", "ready">>
        from == CHOOSE k \in 1..4 : order[k] = ph
        stay(k) == k = 4 \/ ECSight(e, order[k]) > 0 \/ e.hang = order[k]
        first == CHOOSE k \in from..4 :
                    stay(k) /\ \A j \in from..(k - 1) : ~stay(j)
    IN  [e EXCEPT !.phase = order[first],
                  !.dwell = IF first = 4 THEN 0 ELSE ECSight(e, order[first])]

ECNext(ph) == CASE ph = "ibf" -> "quiet" [] ph = "quiet" -> "reply"
                [] OTHER -> "ready"

ECStatus(e) ==
    (IF e.stuck >= 0 THEN e.stuck
     ELSE IF e.weird >= 0 /\ e.hang = e.phase THEN e.weird
     ELSE PhaseSTR3[e.phase]) + LowBits

\* the EC after the host has read port; the value read is ECReadVal
ECAfterRead(e, port) ==
    IF e.stuck >= 0 THEN e
    ELSE IF port = TPC_STR3_PORT
    THEN IF e.phase \in {"ibf", "quiet", "reply"} /\ e.hang # e.phase
         THEN IF e.dwell > 1 THEN [e EXCEPT !.dwell = e.dwell - 1]
              ELSE ECEnter(e, ECNext(e.phase))
         ELSE e
    ELSE IF port = TPC_TWR15_PORT /\ e.phase = "ready"
    THEN [e EXCEPT !.phase = "idle", !.dwell = 0]
    ELSE e

ECReadVal(e, port) ==
    IF port = TPC_STR3_PORT THEN ECStatus(e)
    ELSE IF e.stuck < 0 /\ e.phase = "ready"
    THEN ECReply(e.fn, e.term, port - TPC_TWR0_PORT)
    ELSE Junk

\* the EC after the host has written v to port
ECAfterWrite(e, port, v) ==
    IF e.stuck >= 0 THEN e
    ELSE IF port = TPC_TWR0_PORT /\ e.phase = "idle"
    THEN [e EXCEPT !.phase = "arg0", !.fn = v]
    ELSE IF port = TPC_TWR15_PORT /\ e.phase = "arg0"
    THEN ECEnter([e EXCEPT !.term = v], "ibf")
    ELSE e

\* a local variable: F of the value e
With(e, F(_)) == F(e)

(***************************************************************************)
(* The register port interface, instrumented: s.io is the sequence of port *)
(* accesses and delays of the call in progress, s.log its kernel messages. *)
(* s is the state an engine function works on:                             *)
(*   [ec, prefetch_jiffies, prefetch_arg0, prefetch_argF, now, io, log,    *)
(*    tp_debug]                                                            *)
(***************************************************************************)
inb(s, port) ==
    [val |-> ECReadVal(s.ec, port),
     s |-> [s EXCEPT !.ec = ECAfterRead(s.ec, port),
                     !.io = Append(@, <<"in", port, ECReadVal(s.ec, port)>>)]]

outb(s, v, port) ==
    [s EXCEPT !.ec = ECAfterWrite(s.ec, port, v),
              !.io = Append(@, <<"out", port, v>>)]

ndelay(s, ns) == [s EXCEPT !.io = Append(@, <<"ndelay", ns, 0>>)]

printk(s, msg) == [s EXCEPT !.log = Append(@, msg)]

\* do { if (tp_debug) printk(KERN_DEBUG ...); } while (0)
DPRINTK(s, msg) == IF s.tp_debug THEN printk(s, msg) ELSE s

(***************************************************************************)
(* thinkpad_ec.c: the request sub-protocol                                 *)
(***************************************************************************)
\* Send TWR1 through TWR14, from slot i on
RECURSIVE SendArgs(_, _, _)
SendArgs(s, args, i) ==
    IF i >= TP_CONTROLLER_ROW_LEN - 1 THEN s
    ELSE SendArgs(IF MaskBit(args.mask, i)
                  THEN outb(s, args.val[i], TPC_TWR0_PORT + i)
                  ELSE s,
                  args, i + 1)

\* a pass of that loop which waits out every status without slave-write-mode
ReplyPollLenient(l) ==
    IF l.done THEN l
    ELSE With(inb(l.s, TPC_STR3_PORT), LAMBDA r :
            IF HasBit(Str3Mask(r.val), H8S_STR3_SWMF)
            THEN [s |-> r.s, ret |-> 0, done |-> TRUE]
            ELSE [s |-> ndelay(r.s, TPC_REQUEST_NDELAY), ret |-> 0,
                  done |-> FALSE])

\* One pass of the loop that waits until the EC starts writing its reply.
\* l = [s, ret, done]: the state, the result so far, and whether the loop
\* has been left by a return.
ReplyPoll(l) ==
    IF l.done THEN l
    ELSE With(inb(l.s, TPC_STR3_PORT), LAMBDA r :
            LET str3 == Str3Mask(r.val)
            IN  IF HasBit(str3, H8S_STR3_SWMF)
                THEN [s |-> r.s, ret |-> 0, done |-> TRUE]
                ELSE IF str3 = H8S_STR3_IBF3B + H8S_STR3_MWMF \/ str3 = 0
                THEN [s |-> ndelay(r.s, TPC_REQUEST_NDELAY), ret |-> 0,
                      done |-> FALSE]
                ELSE [s |-> printk(r.s, "bad end STR3"), ret |-> -EIO,
                      done |-> TRUE])

\* n passes of that loop (halved, so that the evaluation stays shallow)
RECURSIVE ReplyPolls(_, _)
ReplyPolls(l, n) ==
    IF l.done \/ n = 0 THEN l
    ELSE IF n = 1 THEN ReplyPoll(l)
    ELSE ReplyPolls(ReplyPolls(l, n \div 2), n - (n \div 2))

\* that loop, reporting a busy EC when it runs out
WaitReplyStartBusy(s) ==
    With(ReplyPolls([s |-> s, ret |-> 0, done |-> FALSE],
                    TPC_REQUEST_RETRIES),
         LAMBDA l :
            IF l.done THEN [s |-> l.s, ret |-> l.ret]
            ELSE [s |-> l.s, ret |-> -EBUSY])

\* for (i=0; i<TPC_REQUEST_RETRIES; ++i) ... and what follows the loop
WaitReplyStart(s) ==
    With(ReplyPolls([s |-> s, ret |-> 0, done |-> FALSE],
                    TPC_REQUEST_RETRIES),
         LAMBDA l :
            IF l.done THEN [s |-> l.s, ret |-> l.ret]
            ELSE [s |-> printk(l.s, "EC is mysteriously silent"),
                  ret |-> -EIO])

\* the request that goes on whatever the status after the write of arg0
SendRequestUnchecked(s, args) ==
    With(inb(outb(s, args.val[0], TPC_TWR0_PORT), TPC_STR3_PORT), LAMBDA r :
        WaitReplyStart(outb(SendArgs(r.s, args, 1),
                            IF MaskBit(args.mask, 15)
                            THEN args.val[15] ELSE 1,
                            TPC_TWR15_PORT)))

\* the request that ends with args->val[0xF] whether or not the mask
\* selects it
SendRequestRawEnd(s, args) ==
    With(inb(outb(s, args.val[0], TPC_TWR0_PORT), TPC_STR3_PORT), LAMBDA r :
        IF Str3Mask(r.val) # H8S_STR3_MWMF
        THEN [s |-> printk(r.s, "arg0 rejected"), ret |-> -EIO]
        ELSE WaitReplyStart(outb(SendArgs(r.s, args, 1), args.val[15],
                                 TPC_TWR15_PORT)))

\* the request once the initial STR3 was 0x00
SendRequest(s, args) ==
    With(inb(outb(s, args.val[0], TPC_TWR0_PORT), TPC_STR3_PORT), LAMBDA r :
        IF Str3Mask(r.val) # H8S_STR3_MWMF
        THEN [s |-> printk(r.s, "arg0 rejected"), ret |-> -EIO]
        ELSE WaitReplyStart(outb(SendArgs(r.s, args, 1),
                                 IF MaskBit(args.mask, 15)
                                 THEN args.val[15] ELSE 1,
                                 TPC_TWR15_PORT)))

\* thinkpad_ec_request_row that does not end a pending readout and takes
\* every unexpected initial status for a busy EC
RequestRowNoDrain(s, args) ==
    IF ~MaskBit(args.mask, 0)
    THEN [s |-> printk(s, "bad args->mask"), ret |-> -EINVAL]
    ELSE With(inb(s, TPC_STR3_PORT), LAMBDA r :
            IF Str3Mask(r.val) # 0
            THEN [s |-> r.s, ret |-> -EBUSY]
            ELSE SendRequest(r.s, args))

\* thinkpad_ec_request_row that ends a pending readout only when no
\* prefetch is outstanding
RequestRowDrainIfNone(s, args) ==
    IF ~MaskBit(args.mask, 0)
    THEN [s |-> printk(s, "bad args->mask"), ret |-> -EINVAL]
    ELSE With(inb(s, TPC_STR3_PORT), LAMBDA r :
            LET str3 == Str3Mask(r.val)
            IN  IF HasBit(str3, H8S_STR3_OBF3B)
                THEN [s |-> IF r.s.prefetch_jiffies = TPC_PREFETCH_NONE
                            THEN printk(inb(r.s, TPC_TWR15_PORT).s,
                                        "readout already pending")
                            ELSE r.s,
                      ret |-> -EBUSY]
                ELSE IF str3 = H8S_STR3_SWMF
                THEN [s |-> r.s, ret |-> -EBUSY]
                ELSE IF str3 # 0
                THEN [s |-> printk(r.s, "bad initial STR3"), ret |-> -EIO]
                ELSE SendRequest(r.s, args))

thinkpad_ec_request_row(s, args) ==
    IF ~MaskBit(args.mask, 0)
    THEN [s |-> printk(s, "bad args->mask"), ret |-> -EINVAL]
    ELSE With(inb(s, TPC_STR3_PORT), LAMBDA r :
            LET str3 == Str3Mask(r.val)
                warn(t, msg) == IF t.prefetch_jiffies = TPC_PREFETCH_NONE
                                THEN printk(t, msg) ELSE t
            IN  IF HasBit(str3, H8S_STR3_OBF3B)
                THEN [s |-> warn(inb(r.s, TPC_TWR15_PORT).s,
                                 "readout already pending"),
                      ret |-> -EBUSY]
                ELSE IF str3 = H8S_STR3_SWMF
                THEN [s |-> warn(r.s, "EC handles previous request"),
                      ret |-> -EBUSY]
                ELSE IF str3 # 0
                THEN [s |-> printk(r.s, "bad initial STR3"), ret |-> -EIO]
                ELSE SendRequest(r.s, args))

(***************************************************************************)
(* thinkpad_ec.c: the read sub-protocol                                    *)
(***************************************************************************)
\* Optionally read 14 more bytes, from slot i on.  m = [s, data]
RECURSIVE ReadArgs(_, _)
ReadArgs(m, i) ==
    IF i >= TP_CONTROLLER_ROW_LEN - 1 THEN m
    ELSE IF MaskBit(m.data.mask, i)
    THEN ReadArgs(With(inb(m.s, TPC_TWR0_PORT + i), LAMBDA r :
                      [s |-> r.s, data |-> [m.data EXCEPT !.val[i] = r.val]]),
                  i + 1)
    ELSE ReadArgs(m, i + 1)

\* the first byte read only if the response mask selects it
ReadFirstIfSelected(s, data) ==
    IF MaskBit(data.mask, 0)
    THEN With(inb(s, TPC_TWR0_PORT), LAMBDA r :
            [s |-> r.s, data |-> [data EXCEPT !.val[0] = r.val]])
    ELSE [s |-> s, data |-> data]

\* Read first byte (signals start of read transactions)
ReadFirst(s, data) ==
    With(inb(s, TPC_TWR0_PORT), LAMBDA r :
        [s |-> r.s, data |-> [data EXCEPT !.val[0] = r.val]])

\* the last byte read from the port but not stored in the response
ReadLastDiscarded(m) ==
    With(inb(m.s, TPC_TWR15_PORT), LAMBDA r : [s |-> r.s, data |-> m.data])

\* Read last byte from 0x161F (signals end of read transaction)
ReadLast(m) ==
    With(inb(m.s, TPC_TWR15_PORT), LAMBDA r :
        [s |-> r.s, data |-> [m.data EXCEPT !.val[15] = r.val]])

\* the final check that fails the read when a readout is still pending
ReadEndStrict(m) ==
    With(inb(m.s, TPC_STR3_PORT), LAMBDA r :
        IF HasBit(Str3Mask(r.val), H8S_STR3_OBF3B)
        THEN [s |-> printk(r.s, "OBF3B=1 after read"), ret |-> -EIO,
              data |-> m.data]
        ELSE [s |-> r.s, ret |-> 0, data |-> m.data])

\* Readout still pending?
ReadEnd(m) ==
    With(inb(m.s, TPC_STR3_PORT), LAMBDA r :
        [s |-> IF HasBit(Str3Mask(r.val), H8S_STR3_OBF3B)
               THEN printk(r.s, "OBF3B=1 after read")
               ELSE r.s,
         ret |-> 0, data |-> m.data])

\* thinkpad_ec_read_data without the read of TWR15 that ends the transaction
ReadDataNoEnd(s, data) ==
    With(inb(s, TPC_STR3_PORT), LAMBDA r :
        LET str3 == Str3Mask(r.val)
        IN  IF \/ str3 = H8S_STR3_IBF3B + H8S_STR3_MWMF
               \/ str3 = 0
               \/ str3 = H8S_STR3_SWMF
            THEN [s |-> r.s, ret |-> -EBUSY, data |-> data]
            ELSE IF str3 # H8S_STR3_OBF3B + H8S_STR3_SWMF
            THEN [s |-> printk(r.s, "bad initial STR3 (read)"),
                  ret |-> -EIO, data |-> data]
            ELSE ReadEnd(ReadArgs(ReadFirst(r.s, data), 1)))

\* thinkpad_ec_read_data that takes status 0x00 for an idle EC, an error
ReadDataIdleIsError(s, data) ==
    With(inb(s, TPC_STR3_PORT), LAMBDA r :
        LET str3 == Str3Mask(r.val)
        IN  IF \/ str3 = H8S_STR3_IBF3B + H8S_STR3_MWMF
               \/ str3 = H8S_STR3_SWMF
            THEN [s |-> r.s, ret |-> -EBUSY, data |-> data]
            ELSE IF str3 # H8S_STR3_OBF3B + H8S_STR3_SWMF
            THEN [s |-> printk(r.s, "bad initial STR3 (read)"),
                  ret |-> -EIO, data |-> data]
            ELSE ReadEnd(ReadLast(ReadArgs(ReadFirst(r.s, data), 1))))

thinkpad_ec_read_data(s, data) ==
    With(inb(s, TPC_STR3_PORT), LAMBDA r :
        LET str3 == Str3Mask(r.val)
        IN  IF \/ str3 = H8S_STR3_IBF3B + H8S_STR3_MWMF
               \/ str3 = 0
               \/ str3 = H8S_STR3_SWMF
            THEN [s |-> r.s, ret |-> -EBUSY, data |-> data]
            ELSE IF str3 # H8S_STR3_OBF3B + H8S_STR3_SWMF
            THEN [s |-> printk(r.s, "bad initial STR3 (read)"),
                  ret |-> -EIO, data |-> data]
            ELSE ReadEnd(ReadLast(ReadArgs(ReadFirst(r.s, data), 1))))

(***************************************************************************)
(* thinkpad_ec.c: the prefetch cache and the public row operations         *)
(***************************************************************************)
\* thinkpad_ec_is_row_fetched without the test for TPC_PREFETCH_JUNK
IsRowFetchedJunkToo(s, args) ==
    /\ s.prefetch_jiffies # TPC_PREFETCH_NONE
    /\ s.prefetch_arg0 = args.val[0]
    /\ s.prefetch_argF = args.val[15]
    /\ s.now < s.prefetch_jiffies + TPC_PREFETCH_TIMEOUT

\* thinkpad_ec_is_row_fetched without the test of the entry's age
IsRowFetchedForever(s, args) ==
    /\ s.prefetch_jiffies # TPC_PREFETCH_NONE
    /\ s.prefetch_jiffies # TPC_PREFETCH_JUNK
    /\ s.prefetch_arg0 = args.val[0]
    /\ s.prefetch_argF = args.val[15]

thinkpad_ec_is_row_fetched(s, args) ==
    /\ s.prefetch_jiffies # TPC_PREFETCH_NONE
    /\ s.prefetch_jiffies # TPC_PREFETCH_JUNK
    /\ s.prefetch_arg0 = args.val[0]
    /\ s.prefetch_argF = args.val[15]
    /\ s.now < s.prefetch_jiffies + TPC_PREFETCH_TIMEOUT

\* a pass of the request loop that goes round again after any error
RequestPassRetriesHard(l, args) ==
    IF l.done THEN l
    ELSE With(thinkpad_ec_request_row(l.s, args), LAMBDA r :
            IF r.ret = 0
            THEN [s |-> r.s, ret |-> r.ret, done |-> TRUE]
            ELSE [s |-> ndelay(r.s, TPC_READ_NDELAY), ret |-> r.ret,
                  done |-> FALSE])

\* One pass of the loop "Request the row" of thinkpad_ec_read_row.
\* l = [s, ret, done]; done: the loop has been left by goto or break.
RequestPass(l, args) ==
    IF l.done THEN l
    ELSE With(thinkpad_ec_request_row(l.s, args), LAMBDA r :
            IF r.ret = 0 \/ r.ret # -EBUSY
            THEN [s |-> r.s, ret |-> r.ret, done |-> TRUE]
            ELSE [s |-> ndelay(r.s, TPC_READ_NDELAY), ret |-> r.ret,
                  done |-> FALSE])

RECURSIVE RequestPasses(_, _, _)
RequestPasses(l, args, n) ==
    IF l.done \/ n = 0 THEN l
    ELSE IF n = 1 THEN RequestPass(l, args)
    ELSE RequestPasses(RequestPasses(l, args, n \div 2), args,
                       n - (n \div 2))

\* the request loop with "<=" for "<" in its bound
RequestLoopOneMore(s, args) ==
    RequestPasses([s |-> s, ret |-> 0, done |-> FALSE], args,
                  TPC_READ_RETRIES + 1)

\* for (retries=0; retries<TPC_READ_RETRIES; ++retries) ... request
RequestLoop(s, args) ==
    RequestPasses([s |-> s, ret |-> 0, done |-> FALSE], args,
                  TPC_READ_RETRIES)

\* a pass of the read loop that goes round again after any error
ReadPassRetriesHard(l) ==
    IF l.done THEN l
    ELSE With(thinkpad_ec_read_data(l.s, l.data), LAMBDA r :
            IF r.ret = 0
            THEN [s |-> r.s, ret |-> r.ret, data |-> r.data, done |-> TRUE]
            ELSE [s |-> ndelay(r.s, TPC_READ_NDELAY), ret |-> r.ret,
                  data |-> r.data, done |-> FALSE])

\* One pass of the loop "Read the row's data" of thinkpad_ec_read_row.
\* l = [s, ret, data, done]
ReadPass(l) ==
    IF l.done THEN l
    ELSE With(thinkpad_ec_read_data(l.s, l.data), LAMBDA r :
            IF r.ret = 0 \/ r.ret # -EBUSY
            THEN [s |-> r.s, ret |-> r.ret, data |-> r.data, done |-> TRUE]
            ELSE [s |-> ndelay(r.s, TPC_READ_NDELAY), ret |-> r.ret,
                  data |-> r.data, done |-> FALSE])

RECURSIVE ReadPasses(_, _)
ReadPasses(l, n) ==
    IF l.done \/ n = 0 THEN l
    ELSE IF n = 1 THEN ReadPass(l)
    ELSE ReadPasses(ReadPasses(l, n \div 2), n - (n \div 2))

\* that message, printed only when the debug toggle is on
ReadLoopEndDebugOnly(l) ==
    [s |-> IF l.ret = 0 THEN l.s ELSE DPRINTK(l.s, "failed waiting for data"),
     ret |-> l.ret, data |-> l.data]

\* the message that follows the read loop when it is not left by "goto out"
ReadLoopEnd(l) ==
    [s |-> IF l.ret = 0 THEN l.s ELSE printk(l.s, "failed waiting for data"),
     ret |-> l.ret, data |-> l.data]

\* the read loop bounded by the retry count of the request's poll loop
ReadLoopShort(s, data) ==
    ReadLoopEnd(ReadPasses([s |-> s, ret |-> 0, data |-> data,
                            done |-> FALSE],
                           TPC_REQUEST_RETRIES))

\* for (retries=0; retries<TPC_READ_RETRIES; ++retries) ... read
ReadLoop(s, data) ==
    ReadLoopEnd(ReadPasses([s |-> s, ret |-> 0, data |-> data,
                            done |-> FALSE],
                           TPC_READ_RETRIES))

\* "out:" without the assignment to prefetch_jiffies
ReadRowOutKeeps(r) == r

\* out: prefetch_jiffies = TPC_PREFETCH_JUNK; return ret
ReadRowOut(r) == [r EXCEPT !.s.prefetch_jiffies = TPC_PREFETCH_JUNK]

\* thinkpad_ec_read_row from the request loop on: q is what the loop gave
ReadRowRequested(q, data) ==
    IF q.ret = 0
    THEN ReadRowOut(ReadLoop(q.s, data))
    ELSE ReadRowOut([s |-> printk(q.s, "failed requesting row"),
                     ret |-> q.ret, data |-> data])

\* thinkpad_ec_read_row that requests the row whatever has been prefetched
ReadRowAlwaysRequests(s, args, data) ==
    ReadRowRequested(RequestLoop(s, args), data)

thinkpad_ec_read_row(s, args, data) ==
    IF thinkpad_ec_is_row_fetched(s, args)
    THEN ReadRowOut(ReadLoop(s, data))
    ELSE ReadRowRequested(RequestLoop(s, args), data)

\* thinkpad_ec_try_read_row that does not mark the entry as eaten up
TryReadKeepsEntry(r) == r

\* thinkpad_ec_try_read_row that gives the entry up when the read fails
TryReadJunksOnError(r) ==
    IF r.ret = 0
    THEN [r EXCEPT !.s.prefetch_jiffies = TPC_PREFETCH_NONE]
    ELSE [r EXCEPT !.s.prefetch_jiffies = TPC_PREFETCH_JUNK]

\* thinkpad_ec_try_read_row once the row counts as fetched
TryReadFetched(r) ==
    IF r.ret = 0
    THEN [r EXCEPT !.s.prefetch_jiffies = TPC_PREFETCH_NONE]  \* eaten up
    ELSE r

\* thinkpad_ec_try_read_row that waits for the data as thinkpad_ec_read_row
\* does
TryReadRowRetries(s, args, data) ==
    IF ~thinkpad_ec_is_row_fetched(s, args)
    THEN [s |-> s, ret |-> -ENODATA, data |-> data]
    ELSE TryReadFetched(ReadLoop(s, data))

thinkpad_ec_try_read_row(s, args, data) ==
    IF ~thinkpad_ec_is_row_fetched(s, args)
    THEN [s |-> s, ret |-> -ENODATA, data |-> data]
    ELSE TryReadFetched(thinkpad_ec_read_data(s, data))

\* thinkpad_ec_prefetch_row that does not note which row it asked for
PrefetchNoAnchors(s, args) ==
    With(thinkpad_ec_request_row(s, args), LAMBDA r :
        IF r.ret # 0
        THEN [r EXCEPT !.s.prefetch_jiffies = TPC_PREFETCH_JUNK]
        ELSE [r EXCEPT !.s.prefetch_jiffies = s.now])

\* thinkpad_ec_prefetch_row that leaves the entry alone when the request
\* fails
PrefetchKeepsOnError(s, args) ==
    With(thinkpad_ec_request_row(s, args), LAMBDA r :
        IF r.ret # 0
        THEN r
        ELSE [r EXCEPT !.s.prefetch_jiffies = s.now,
                       !.s.prefetch_arg0 = args.val[0],
                       !.s.prefetch_argF = args.val[15]])

\* thinkpad_ec_prefetch_row that retries the request as thinkpad_ec_read_row
\* does
PrefetchRetries(s, args) ==
    With(RequestLoop(s, args), LAMBDA r :
        IF r.ret # 0
        THEN [s |-> [r.s EXCEPT !.prefetch_jiffies = TPC_PREFETCH_JUNK],
              ret |-> r.ret]
        ELSE [s |-> [r.s EXCEPT !.prefetch_jiffies = s.now,
                                !.prefetch_arg0 = args.val[0],
                                !.prefetch_argF = args.val[15]],
              ret |-> r.ret])

thinkpad_ec_prefetch_row(s, args) ==
    With(thinkpad_ec_request_row(s, args), LAMBDA r :
        IF r.ret # 0
        THEN [r EXCEPT !.s.prefetch_jiffies = TPC_PREFETCH_JUNK]
        ELSE [r EXCEPT !.s.prefetch_jiffies = s.now,
                       !.s.prefetch_arg0 = args.val[0],
                       !.s.prefetch_argF = args.val[15]])

\* thinkpad_ec_invalidate that leaves the entry as it is
InvalidateNothing(s) == s

thinkpad_ec_invalidate(s) ==
    [s EXCEPT !.prefetch_jiffies = TPC_PREFETCH_JUNK]

(***************************************************************************)
(* State                                                                   *)
(***************************************************************************)
VARIABLES
    ec,                 \* the embedded controller
    prefetch_jiffies,   \* time of prefetch, or TPC_PREFETCH_NONE / _JUNK
    prefetch_arg0,      \* args of last prefetch
    prefetch_argF,
    jiffies,            \* get_jiffies_64()
    last,               \* the row operation that returned last, as observed
    hist,               \* what the caller of the row operations did before
    thinkpad_ec_mutex,  \* the count of the controller lock (a semaphore)
    pc,                 \* where each consumer is in its handler
    held,               \* the consumers between a successful acquire of the
                        \* lock and their release of it
    ret,                \* the consumer that returned last: val is what it
                        \* returned, row the result of the row operation
                        \* behind it (0 if it ran none)
    count,              \* smapi_request's "retries", hdaps_update's "total"
    hdaps_timer,        \* whether the poll timer is pending
    region              \* whether thinkpad_ec holds the I/O port region

engine == <<ec, prefetch_jiffies, prefetch_arg0, prefetch_argF>>
consumers == <<thinkpad_ec_mutex, pc, held, ret, count, hdaps_timer,
               region>>
vars == <<ec, prefetch_jiffies, prefetch_arg0, prefetch_argF, jiffies,
          last, hist, thinkpad_ec_mutex, pc, held, ret, count, hdaps_timer,
          region>>

\* the consumers: a battery attribute reader (tpc_read_row), the SMAPI
\* caller (smapi_request), an accelerometer attribute reader
\* (hdaps_update), the accelerometer poll timer (hdaps_mousedev_poll) and
\* the accelerometer probe (hdaps_device_init)
Procs == {"bat", "smapi", "upd", "poll", "dev"}

\* the requests and response masks the callers draw from:
\*   mask 0x8001, (0x11, 0x01)   the accelerometer row of hdaps.c
\*   mask 0x8001, (0x01, 0x00)   the battery row of thinkpad_ec_test
\*   mask 0x0007, (0x11, 0x00)   terminator slot not selected
\*   mask 0x8006, (0x11, 0x01)   function slot not selected
ReqRow(mask, f, t) ==
    Row(mask, [i \in 0..15 |-> IF i = 0 THEN f ELSE IF i = 15 THEN t ELSE 0])
Requests == {ReqRow(32769, 17, 1), ReqRow(32769, 1, 0), ReqRow(7, 17, 0),
             ReqRow(32774, 17, 1)}
\* response masks 0x4002 and 0x8005
DataMasks == {16386, 32773}
FreshData(mask) == Row(mask, [i \in 0..15 |-> Stale])

\* the state the engine functions work on, at the start of a call
Eng == [ec |-> ec, prefetch_jiffies |-> prefetch_jiffies,
        prefetch_arg0 |-> prefetch_arg0, prefetch_argF |-> prefetch_argF,
        now |-> jiffies, io |-> <<>>, log |-> <<>>, tp_debug |-> FALSE]

NoRow == Row(0, [i \in 0..15 |-> 0])
\* the EC as far as a call's outcome depends on it
ECView(e) == [phase |-> e.phase, lat |-> e.lat, hang |-> e.hang,
              stuck |-> e.stuck]
NoEC == [phase |-> "idle", lat |-> 0, hang |-> "none", stuck |-> -1]
\* hist: what the caller did before
\*   op, args  the call before: "prefetched" with its request if it was a
\*             prefetch_row that succeeded; "invalidate", with the request
\*             of the prefetch_row that succeeded right before it, if one
\*             did; or "other"
\*   armed     whether a prefetch_row has succeeded since the last
\*             read_row, successful try_read_row or invalidate
NoHist == [op |-> "other", args |-> NoRow, armed |-> FALSE]
NoCall == [op |-> "none", args |-> NoRow, data |-> NoRow, ret |-> 0,
           io |-> <<>>, log |-> <<>>, hit |-> FALSE, pj0 |-> 0, now |-> 0,
           ec0 |-> NoEC, chain |-> NoHist]

\* the engine's variables after a call that left the engine in state s
Commit(s) ==
    /\ ec' = s.ec
    /\ prefetch_jiffies' = s.prefetch_jiffies
    /\ prefetch_arg0' = s.prefetch_arg0
    /\ prefetch_argF' = s.prefetch_argF

\* what the caller and the instrumented ports saw of the call:
\* hit, pj0, now  whether the row counted as fetched, the cache timestamp
\*                and the clock when the call began
\* ec0            the EC when the call began
\* chain          hist when the call began
Observe(op, args, r, data) ==
    last' = [op |-> op, args |-> args, data |-> data, ret |-> r.ret,
             io |-> r.s.io, log |-> r.s.log,
             hit |-> thinkpad_ec_is_row_fetched(Eng, args),
             pj0 |-> prefetch_jiffies, now |-> jiffies, ec0 |-> ECView(ec),
             chain |-> hist]

\* DECLARE_MUTEX: the lock is free; no consumer has started; the poll timer
\* has been added (hdaps_init); thinkpad_ec_init has claimed the ports
ConsumersInit ==
    /\ region = TRUE
    /\ thinkpad_ec_mutex = 1
    /\ pc = [p \in Procs |-> "idle"]
    /\ held = {}
    /\ ret = [who |-> "none", val |-> 0, row |-> 0]
    /\ count = [p \in Procs |-> 0]
    /\ hdaps_timer = TRUE

HealthyEC ==
    [phase : {"idle"}, dwell : {0}, lat : 0..MaxLat, hang : {"none"},
     stuck : {-1}, weird : {-1}, fn : {0}, term : {0}]

\* the driver has been loaded (thinkpad_ec_init) at boot time
Init ==
    /\ ec \in HealthyEC
    /\ prefetch_jiffies = TPC_PREFETCH_JUNK
    /\ prefetch_arg0 = 0
    /\ prefetch_argF = 0
    /\ jiffies = INITIAL_JIFFIES
    /\ last = NoCall
    /\ hist = NoHist
    /\ ConsumersInit

\* the driver has been loaded, some time after boot
InitLate ==
    /\ ec \in HealthyEC
    /\ prefetch_jiffies = TPC_PREFETCH_JUNK
    /\ prefetch_arg0 = 0
    /\ prefetch_argF = 0
    /\ jiffies = INITIAL_JIFFIES + MaxTicks
    /\ last = NoCall
    /\ hist = NoHist
    /\ ConsumersInit

(***************************************************************************)
(* A caller that holds the controller lock and uses the row operations     *)
(***************************************************************************)
\* the call op(args) has returned r, with the caller's data row as data
Returned(op, args, r, data) ==
    /\ Commit(r.s)
    /\ Observe(op, args, r, data)
    /\ UNCHANGED <<jiffies, consumers>>

ReadRowReturned(args, r) ==
    /\ Returned("read_row", args, r, r.data)
    /\ hist' = NoHist

CallReadRow(args, mask) ==
    ReadRowReturned(args, thinkpad_ec_read_row(Eng, args, FreshData(mask)))

TryReadRowReturned(args, r) ==
    /\ Returned("try_read_row", args, r, r.data)
    /\ hist' = [NoHist EXCEPT !.armed = hist.armed /\ r.ret # 0]

CallTryReadRow(args, mask) ==
    TryReadRowReturned(args,
                       thinkpad_ec_try_read_row(Eng, args, FreshData(mask)))

PrefetchRowReturned(args, r) ==
    /\ Returned("prefetch_row", args, r, NoRow)
    /\ hist' = IF r.ret = 0
               THEN [op |-> "prefetched", args |-> args, armed |-> TRUE]
               ELSE [NoHist EXCEPT !.armed = hist.armed]

CallPrefetchRow(args) ==
    PrefetchRowReturned(args, thinkpad_ec_prefetch_row(Eng, args))

CallInvalidate ==
    /\ Returned("invalidate", NoRow,
                [s |-> thinkpad_ec_invalidate(Eng), ret |-> 0], NoRow)
    /\ hist' = [NoHist EXCEPT !.op = "invalidate", !.args = hist.args]

(***************************************************************************)
(* The environment: the clock and the controller's firmware                *)
(***************************************************************************)
\* An event of the environment ends the observation of the last call.
Tick ==
    /\ jiffies < INITIAL_JIFFIES + MaxTicks
    /\ jiffies' = jiffies + 1
    /\ last' = NoCall
    /\ UNCHANGED <<engine, hist, consumers>>

\* the EC finishes the reply it is working on
ECSettle ==
    /\ ec.stuck < 0
    /\ ec.phase \in {"ibf", "quiet", "reply"}
    /\ ec.hang # ec.phase
    /\ ec' = ECEnter(ec, ECNext(ec.phase))
    /\ last' = NoCall
    /\ UNCHANGED <<prefetch_jiffies, prefetch_arg0, prefetch_argF, jiffies,
                   hist, consumers>>

\* the EC wedges, showing STR3 pattern st from now on
ECFault(st) ==
    /\ ec.stuck < 0
    /\ ec.hang = "none"
    /\ ec' = [ec EXCEPT !.stuck = st, !.phase = "idle", !.dwell = 0,
                        !.lat = 0, !.fn = 0, !.term = 0]
    /\ last' = NoCall
    /\ UNCHANGED <<prefetch_jiffies, prefetch_arg0, prefetch_argF, jiffies,
                   hist, consumers>>

\* the firmware starts to hang in phase ph of every reply
ECHang(ph) ==
    /\ ec.stuck < 0
    /\ ec.hang = "none"
    /\ ec.phase = "idle"
    /\ ec' = [ec EXCEPT !.hang = ph]
    /\ last' = NoCall
    /\ UNCHANGED <<prefetch_jiffies, prefetch_arg0, prefetch_argF, jiffies,
                   hist, consumers>>

\* the firmware goes wrong in phase ph of every request: it stays there,
\* showing STR3 pattern st (phase arg0: until the terminator is written;
\* phase idle: it shows st whenever no transaction is under way)
ECGlitch(ph, st) ==
    /\ ec.stuck < 0
    /\ ec.hang = "none"
    /\ ec.phase = "idle" \/ (ph = "idle" /\ ec.phase = "ready")
    /\ ec' = [ec EXCEPT !.hang = ph, !.weird = st]
    /\ last' = NoCall
    /\ UNCHANGED <<prefetch_jiffies, prefetch_arg0, prefetch_argF, jiffies,
                   hist, consumers>>

NextRow ==
    \/ \E args \in Requests, mask \in DataMasks : CallReadRow(args, mask)
    \/ \E args \in Requests, mask \in DataMasks : CallTryReadRow(args, mask)
    \/ \E args \in Requests : CallPrefetchRow(args)
    \/ CallInvalidate
    \/ Tick
    \/ ECSettle

\* the row operations against a healthy EC of any reply latency
SpecRow == Init /\ [][NextRow]_vars

NextFault ==
    \/ \E args \in Requests, mask \in DataMasks : CallReadRow(args, mask)
    \/ \E args \in Requests, mask \in DataMasks : CallTryReadRow(args, mask)
    \/ \E args \in Requests : CallPrefetchRow(args)
    \/ CallInvalidate
    \/ \E st \in Patterns : ECFault(st)
    \/ \E ph \in {"ibf", "quiet", "reply"} : ECHang(ph)

\* the row operations against an EC that wedges or whose firmware hangs
SpecFault == InitLate /\ [][NextFault]_vars

NextOne ==
    \/ \E mask \in DataMasks : CallReadRow(ReqRow(32769, 17, 1), mask)
    \/ \E mask \in DataMasks : CallTryReadRow(ReqRow(32769, 17, 1), mask)
    \/ CallPrefetchRow(ReqRow(32769, 17, 1))
    \/ \E st \in Patterns : ECFault(st)
    \/ \E ph \in {"ibf", "quiet", "reply"} : ECHang(ph)

\* the row operations of a caller that uses one request, against an EC that
\* wedges or whose firmware hangs
SpecOne == InitLate /\ [][NextOne]_vars

\* requests with the same val[0] and val[0xF], one of which leaves the
\* terminator to the default: masks 0x8001 and 0x0007 with (0x11, 0x00);
\* and the accelerometer row
KeyRequests == {ReqRow(32769, 17, 0), ReqRow(7, 17, 0), ReqRow(32769, 17, 1)}

NextKey ==
    \/ \E args \in KeyRequests, mask \in DataMasks : CallReadRow(args, mask)
    \/ \E args \in KeyRequests, mask \in DataMasks :
          CallTryReadRow(args, mask)
    \/ \E args \in KeyRequests : CallPrefetchRow(args)
    \/ ECSettle

\* the row operations on requests that differ in the mask only
SpecKey == InitLate /\ [][NextKey]_vars

NextGlitch ==
    \/ \E mask \in DataMasks : CallReadRow(ReqRow(32769, 17, 1), mask)
    \/ \E args \in Requests : CallPrefetchRow(args)
    \/ \E ph \in {"idle", "arg0", "ibf", "quiet", "reply"}, st \in Patterns :
          ECGlitch(ph, st)

\* the row operations against an EC that shows an unexpected status at
\* some point of every request
SpecGlitch == InitLate /\ [][NextGlitch]_vars

(***************************************************************************)
(* The controller lock (a semaphore of initial count 1)                    *)
(***************************************************************************)
\* down_interruptible / down: the caller gets past only while the count is
\* positive
thinkpad_ec_lock(p) ==
    /\ thinkpad_ec_mutex > 0
    /\ thinkpad_ec_mutex' = thinkpad_ec_mutex - 1
    /\ held' = held \cup {p}

\* down_interruptible: a signal ends the wait; nothing is acquired
LockInterrupted ==
    /\ thinkpad_ec_mutex <= 0
    /\ UNCHANGED <<thinkpad_ec_mutex, held>>

\* thinkpad_ec_lock: what it logs when down_interruptible gave ret
LockMessage(s, r) ==
    IF r # 0 THEN DPRINTK(s, "tp_controller mutex down interrupted") ELSE s

\* a try-lock that reports success whether or not the lock was free
TryLockBlind(p, r) ==
    /\ r = 0
    /\ thinkpad_ec_mutex' = thinkpad_ec_mutex - 1
    /\ held' = held \cup {p}

\* down_trylock: 0 iff acquired
thinkpad_ec_try_lock(p, r) ==
    IF thinkpad_ec_mutex > 0
    THEN /\ r = 0
         /\ thinkpad_ec_mutex' = thinkpad_ec_mutex - 1
         /\ held' = held \cup {p}
    ELSE /\ r = 1
         /\ UNCHANGED <<thinkpad_ec_mutex, held>>

\* up
thinkpad_ec_unlock(p) ==
    /\ thinkpad_ec_mutex < MaxSem
    /\ thinkpad_ec_mutex' = thinkpad_ec_mutex + 1
    /\ held' = held \ {p}

(***************************************************************************)
(* thinkpad_ec.c: checking for EC hardware, init and cleanup               *)
(***************************************************************************)
\* battery 0 basic status: mask 0x8001, (0x01, 0x00); nothing is read back
TestArgs ==
    Row(32769, [i \in 0..15 |-> IF i = 0 THEN 1 ELSE 0])
TestData == Row(0, [i \in 0..15 |-> Stale])

\* thinkpad_ec_test with the lock at count m: thinkpad_ec_lock();
\* thinkpad_ec_read_row(); thinkpad_ec_unlock().  A lock that is not free
\* is waited for; the wait is modelled by its interruption.
thinkpad_ec_test(s, m) ==
    IF m <= 0
    THEN [s |-> LockMessage(s, -EINTR), ret |-> -EINTR, mutex |-> m]
    ELSE With(thinkpad_ec_read_row(s, TestArgs, TestData), LAMBDA r :
            [s |-> r.s, ret |-> r.ret, mutex |-> (m - 1) + 1])

\* thinkpad_ec_init that keeps the ports when the EC test fails
InitKeepsRegion(s, dmi, free, m) ==
    IF ~dmi
    THEN [s |-> printk(s, "no ThinkPad embedded controller!"),
          ret |-> -ENODEV, region |-> FALSE, mutex |-> m]
    ELSE IF ~free
    THEN [s |-> printk(s, "cannot claim io ports"),
          ret |-> -ENXIO, region |-> FALSE, mutex |-> m]
    ELSE With(thinkpad_ec_test(
                 [s EXCEPT !.prefetch_jiffies = TPC_PREFETCH_JUNK], m),
              LAMBDA t :
            IF t.ret # 0
            THEN [s |-> printk(t.s, "initial ec test failed"),
                  ret |-> -ENXIO, region |-> TRUE, mutex |-> t.mutex]
            ELSE [s |-> printk(t.s, "loaded"),
                  ret |-> 0, region |-> TRUE, mutex |-> t.mutex])

\* thinkpad_ec_init with the lock at count m; dmi is what check_dmi_for_ec
\* gives, free whether request_region finds the ports unclaimed
thinkpad_ec_init(s, dmi, free, m) ==
    IF ~dmi
    THEN [s |-> printk(s, "no ThinkPad embedded controller!"),
          ret |-> -ENODEV, region |-> FALSE, mutex |-> m]
    ELSE IF ~free
    THEN [s |-> printk(s, "cannot claim io ports"),
          ret |-> -ENXIO, region |-> FALSE, mutex |-> m]
    ELSE With(thinkpad_ec_test(
                 [s EXCEPT !.prefetch_jiffies = TPC_PREFETCH_JUNK], m),
              LAMBDA t :
            IF t.ret # 0
            THEN [s |-> printk(t.s, "initial ec test failed"),
                  ret |-> -ENXIO, region |-> FALSE, mutex |-> t.mutex]
            ELSE [s |-> printk(t.s, "loaded"),
                  ret |-> 0, region |-> TRUE, mutex |-> t.mutex])

\* module_init(thinkpad_ec_init), the module not being loaded
ModuleInit(dmi, free) ==
    /\ ~region
    /\ With(thinkpad_ec_init(Eng, dmi, free, thinkpad_ec_mutex), LAMBDA r :
          /\ Commit(r.s)
          /\ Observe("init", TestArgs, r, NoRow)
          /\ region' = r.region
          /\ thinkpad_ec_mutex' = r.mutex
          /\ ret' = [who |-> "init", val |-> r.ret, row |-> 0])
    /\ hist' = NoHist
    /\ UNCHANGED <<jiffies, pc, held, count, hdaps_timer>>

\* module_exit(thinkpad_ec_exit): release_region
ModuleExit ==
    /\ region
    /\ region' = FALSE
    /\ ret' = [who |-> "exit", val |-> 0, row |-> 0]
    /\ last' = NoCall
    /\ UNCHANGED <<engine, jiffies, hist, thinkpad_ec_mutex, pc, held, count,
                   hdaps_timer>>

(***************************************************************************)
(* tp_smapi.c: tpc_read_row and smapi_request                              *)
(***************************************************************************)
BatArgs(arg0, bat, j) ==
    Row(65535, [i \in 0..15 |-> IF i = 0 THEN arg0
                                ELSE IF i = 15 THEN bat ELSE j])

\* a consumer that reports every busy result as an I/O error
RowReturnedAsEIO(p, r) ==
    /\ Commit(r.s)
    /\ ret' = [who |-> p, val |-> IF r.ret = -EBUSY THEN -EIO ELSE r.ret,
               row |-> r.row]

\* consumer p returns r.ret after a row operation that gave r.row
RowReturned(p, r) ==
    /\ Commit(r.s)
    /\ ret' = [who |-> p, val |-> r.ret, row |-> r.row]

\* tpc_read_row: thinkpad_ec_lock(), interruptible
BatLock ==
    /\ pc["bat"] = "idle"
    /\ \/ /\ thinkpad_ec_lock("bat")
          /\ pc' = [pc EXCEPT !["bat"] = "locked"]
          /\ UNCHANGED ret
       \/ /\ LockInterrupted
          /\ ret' = [who |-> "bat", val |-> -EINTR, row |-> 0]
          /\ UNCHANGED pc
    /\ UNCHANGED <<engine, jiffies, last, hist, count, hdaps_timer, region>>

\* tpc_read_row: ret = thinkpad_ec_read_row(); ...; return ret
tpc_read_row(r) == [s |-> r.s, ret |-> r.ret, row |-> r.ret]

\* tpc_read_row: thinkpad_ec_read_row(); thinkpad_ec_unlock()
BatReadRow(bat) ==
    /\ pc["bat"] = "locked"
    /\ RowReturned("bat",
                   tpc_read_row(thinkpad_ec_read_row(Eng, BatArgs(1, bat, 0),
                                                     FreshData(65535))))
    /\ thinkpad_ec_unlock("bat")
    /\ pc' = [pc EXCEPT !["bat"] = "idle"]
    /\ UNCHANGED <<jiffies, last, hist, count, hdaps_timer, region>>

\* smapi_rc[]: the SMAPI return codes and the errors they map to; the entry
\* of 0x92 has no third initializer, so its ret is 0
smapi_rc ==
    <<<<0, 0>>, <<83, -ENXIO>>, <<129, -EINVAL>>, <<134, -ENOSYS>>,
      <<144, -EIO>>, <<145, -EIO>>, <<146, 0>>, <<160, -EIO>>,
      <<161, -EBUSY>>, <<162, -ENXIO>>, <<163, -EIO>>, <<164, -EINVAL>>,
      <<165, -EINVAL>>, <<166, -EBUSY>>, <<255, -EIO>>>>

\* Look up error code
SmapiRet(rc) ==
    LET i == CHOOSE k \in 1..Len(smapi_rc) :
                /\ smapi_rc[k][1] = 255 \/ smapi_rc[k][1] = rc
                /\ \A j \in 1..(k - 1) :
                      smapi_rc[j][1] # 255 /\ smapi_rc[j][1] # rc
    IN  smapi_rc[i][2]

\* the return codes the SMAPI BIOS is made to give
SmapiCodes == {0, 83, 146, 161, 66}

\* what an access to the EC that bypasses the row operations (the SMI
\* handler, the latch sequence of hdaps_device_init) may leave behind
ECDisturbed(e) ==
    IF e.stuck >= 0 THEN {e}
    ELSE {e, [e EXCEPT !.phase = "idle", !.dwell = 0],
          [e EXCEPT !.phase = "ready", !.dwell = 0, !.fn = 0, !.term = 0]}

\* smapi_request: one pass of the retry loop up to thinkpad_ec_lock()
SmapiLock ==
    /\ pc["smapi"] = "idle"
    /\ \/ /\ thinkpad_ec_lock("smapi")
          /\ pc' = [pc EXCEPT !["smapi"] = "locked"]
          /\ UNCHANGED <<ret, count>>
       \/ /\ LockInterrupted
          /\ ret' = [who |-> "smapi", val |-> -EINTR, row |-> 0]
          /\ count' = [count EXCEPT !["smapi"] = 0]
          /\ UNCHANGED pc
    /\ UNCHANGED <<engine, jiffies, last, hist, hdaps_timer, region>>

\* smapi_request: the SMI, thinkpad_ec_invalidate(), thinkpad_ec_unlock(),
\* the lookup of the return code rc, and the decision to go round again
SmapiSMI(rc) ==
    /\ pc["smapi"] = "locked"
    /\ \E e \in ECDisturbed(ec) :
          Commit(thinkpad_ec_invalidate([Eng EXCEPT !.ec = e]))
    /\ thinkpad_ec_unlock("smapi")
    /\ LET r == SmapiRet(rc)
       IN  /\ ret' = [who |-> "smapi", val |-> r, row |-> 0]
           /\ count' = [count EXCEPT !["smapi"] =
                          IF r = -EBUSY /\ @ + 1 < SMAPI_MAX_RETRIES
                          THEN @ + 1 ELSE 0]
    /\ pc' = [pc EXCEPT !["smapi"] = "idle"]
    /\ UNCHANGED <<jiffies, last, hist, hdaps_timer, region>>

\* The same handler in two steps, for what can happen between its access
\* to the EC and its release of the lock.
\* smapi_request: the SMI to the SMBIOS, which works on the EC by itself
SmapiCall ==
    /\ pc["smapi"] = "locked"
    /\ \E e \in ECDisturbed(ec) : ec' = e
    /\ pc' = [pc EXCEPT !["smapi"] = "smi"]
    /\ UNCHANGED <<prefetch_jiffies, prefetch_arg0, prefetch_argF, jiffies,
                   last, hist, thinkpad_ec_mutex, held, ret, count,
                   hdaps_timer, region>>

\* smapi_request after the SMI, which gave return code rc:
\* thinkpad_ec_invalidate(), thinkpad_ec_unlock(), the lookup of rc, and
\* the decision to go round again
SmapiOut(rc) ==
    /\ pc["smapi"] = "smi"
    /\ Commit(thinkpad_ec_invalidate(Eng))
    /\ thinkpad_ec_unlock("smapi")
    /\ LET r == SmapiRet(rc)
       IN  /\ ret' = [who |-> "smapi", val |-> r, row |-> 0]
           /\ count' = [count EXCEPT !["smapi"] =
                          IF r = -EBUSY /\ @ + 1 < SMAPI_MAX_RETRIES
                          THEN @ + 1 ELSE 0]
    /\ pc' = [pc EXCEPT !["smapi"] = "idle"]
    /\ UNCHANGED <<jiffies, last, hist, hdaps_timer, region>>

(***************************************************************************)
(* hdaps.c                                                                 *)
(***************************************************************************)
\* the accelerometer row (0x11, 0x01), read whole
AccelArgs == ReqRow(32769, 17, 1)
LatchArgs == ReqRow(32769, 19, 1)

hdaps_read_row(s, fast) ==
    With(IF fast
         THEN thinkpad_ec_try_read_row(s, AccelArgs, FreshData(65535))
         ELSE thinkpad_ec_read_row(s, AccelArgs, FreshData(65535)),
         LAMBDA r :
            [s |-> thinkpad_ec_prefetch_row(r.s, AccelArgs).s,
             ret |-> r.ret, data |-> r.data])

hdaps_update_locked(s, fast) ==
    With(hdaps_read_row(s, fast), LAMBDA r :
        [s |-> r.s,
         ret |-> IF r.ret # 0 THEN r.ret
                 ELSE IF r.data.val[HDAPS_IDX_STATE] >= STATE_HAVE_POS THEN 0
                 ELSE -EBUSY,
         row |-> r.ret])

\* hdaps_update: tp_controller_lock() at the head of a pass; the result of
\* the call is not looked at, the pass goes on once the gate lets it
UpdLock ==
    /\ pc["upd"] \in {"idle", "retry"}
    /\ thinkpad_ec_lock("upd")
    /\ count' = [count EXCEPT !["upd"] =
                   IF pc["upd"] = "idle" THEN READ_TIMEOUT_MSECS ELSE @]
    /\ pc' = [pc EXCEPT !["upd"] = "locked"]
    /\ UNCHANGED <<engine, jiffies, last, hist, ret, hdaps_timer, region>>

\* hdaps_update after __hdaps_update(0) gave r: return, or sleep and go
\* round again
UpdUpdated(r) ==
    /\ RowReturned("upd", r)
    /\ IF r.ret = -EBUSY /\ count["upd"] - RETRY_MSECS > 0
       THEN /\ pc' = [pc EXCEPT !["upd"] = "retry"]
            /\ count' = [count EXCEPT !["upd"] = @ - RETRY_MSECS]
       ELSE /\ pc' = [pc EXCEPT !["upd"] = "idle"]
            /\ count' = [count EXCEPT !["upd"] = 0]

\* hdaps_update: __hdaps_update(0); tp_controller_unlock(); and the rest
\* of the pass
UpdUpdate ==
    /\ pc["upd"] = "locked"
    /\ thinkpad_ec_unlock("upd")
    /\ UpdUpdated(hdaps_update_locked(Eng, FALSE))
    /\ UNCHANGED <<jiffies, last, hist, hdaps_timer, region>>

\* hdaps_mousedev_poll: the timer fires; tp_controller_trylock()
PollTryLock ==
    /\ pc["poll"] = "idle"
    /\ hdaps_timer
    /\ hdaps_timer' = FALSE
    /\ \E r \in {0, 1} :
          /\ thinkpad_ec_try_lock("poll", r)
          /\ pc' = [pc EXCEPT !["poll"] =
                      IF r # 0 THEN "keep_active" ELSE "locked"]
    /\ UNCHANGED <<engine, jiffies, last, hist, ret, count, region>>

\* hdaps_mousedev_poll after __hdaps_update(1) gave r: the timer is set
\* again unless the update failed hard
PollUpdated(r) ==
    /\ RowReturned("poll", r)
    /\ hdaps_timer' = (r.ret = 0 \/ r.ret = -EBUSY \/ r.ret = -ENODATA)

\* hdaps_mousedev_poll with the gate taken: __hdaps_update(1), then
\* keep_active (mod_timer) unless the update failed hard, then out
PollUpdate ==
    /\ pc["poll"] = "locked"
    /\ PollUpdated(hdaps_update_locked(Eng, TRUE))
    /\ thinkpad_ec_unlock("poll")
    /\ pc' = [pc EXCEPT !["poll"] = "idle"]
    /\ UNCHANGED <<jiffies, last, hist, count, region>>

\* hdaps_mousedev_poll after a failed trylock: keep_active (mod_timer),
\* and on into out: tp_controller_unlock()
PollKeepActive ==
    /\ pc["poll"] = "keep_active"
    /\ hdaps_timer' = TRUE
    /\ thinkpad_ec_unlock("poll")
    /\ pc' = [pc EXCEPT !["poll"] = "idle"]
    /\ UNCHANGED <<engine, jiffies, last, hist, ret, count, region>>

\* the EC once it has had the time to finish the reply it is working on
ECReplied(e) ==
    IF e.stuck < 0 /\ e.hang = "none" /\ e.phase \in {"ibf", "quiet", "reply"}
    THEN [e EXCEPT !.phase = "ready", !.dwell = 0]
    ELSE e

\* the poll timer, set to jiffies + HDAPS_POLL_PERIOD, expires, the EC
\* having had that time for its reply; hdaps_mousedev_poll starts and
\* tp_controller_trylock() finds the gate free
PollExpires ==
    /\ pc["poll"] = "idle"
    /\ hdaps_timer
    /\ jiffies + HDAPS_POLL_PERIOD <= INITIAL_JIFFIES + MaxTicks
    /\ jiffies' = jiffies + HDAPS_POLL_PERIOD
    /\ ec' = ECReplied(ec)
    /\ hdaps_timer' = FALSE
    /\ thinkpad_ec_try_lock("poll", 0)
    /\ pc' = [pc EXCEPT !["poll"] = "locked"]
    /\ UNCHANGED <<prefetch_jiffies, prefetch_arg0, prefetch_argF, last, hist,
                   ret, count, region>>

\* hdaps_device_init: tp_controller_lock()
DevLock ==
    /\ pc["dev"] = "idle"
    /\ thinkpad_ec_lock("dev")
    /\ pc' = [pc EXCEPT !["dev"] = "locked"]
    /\ UNCHANGED <<engine, jiffies, last, hist, ret, count, hdaps_timer,
                   region>>

\* hdaps_device_init, good: the prefetch gave q; tp_controller_invalidate()
DevGood(q) ==
    /\ Commit(thinkpad_ec_invalidate(q.s))
    /\ ret' = [who |-> "dev", val |-> q.ret, row |-> q.ret]

\* hdaps_device_init, out: the engine is left in state s;
\* tp_controller_invalidate()
DevOut(s) ==
    /\ Commit(thinkpad_ec_invalidate(s))
    /\ ret' = [who |-> "dev", val |-> -ENXIO, row |-> 0]

\* hdaps_device_init after the latch sequence on the ports themselves left
\* the engine in state d: the sequence timed out (ok false), or it went
\* through to invalidate and the prefetch
DevLatched(d, ok) ==
    IF ok
    THEN DevGood(thinkpad_ec_prefetch_row(thinkpad_ec_invalidate(d),
                                          AccelArgs))
    ELSE DevOut(d)

\* the latch check failed: it returned an error, its end byte is not 0x00,
\* or its status is none of 0x01, 0x02, 0x03
LatchCheckBad(r) ==
    \/ r.ret # 0
    \/ r.data.val[15] # 0
    \/ r.data.val[1] \notin {1, 2, 3}

\* hdaps_device_init after the latch check gave r
DevChecked(r, ok) ==
    IF LatchCheckBad(r)
    THEN DevOut(r.s)
    ELSE \E e \in ECDisturbed(r.s.ec) : DevLatched([r.s EXCEPT !.ec = e], ok)

\* hdaps_device_init with the gate taken: the latch check, the latch
\* sequence, then out/good: tp_controller_invalidate();
\* tp_controller_unlock()
DevInit(ok) ==
    /\ pc["dev"] = "locked"
    /\ DevChecked(thinkpad_ec_read_row(Eng, LatchArgs, FreshData(65535)), ok)
    /\ thinkpad_ec_unlock("dev")
    /\ pc' = [pc EXCEPT !["dev"] = "idle"]
    /\ UNCHANGED <<jiffies, last, hist, count, hdaps_timer, region>>

\* The same handler in two steps.
\* hdaps_device_init after the latch check gave r: out, or on into the
\* latch sequence, which works on the ports themselves
DevLatching(r) ==
    IF LatchCheckBad(r)
    THEN /\ DevOut(r.s)
         /\ thinkpad_ec_unlock("dev")
         /\ pc' = [pc EXCEPT !["dev"] = "idle"]
    ELSE /\ \E e \in ECDisturbed(r.s.ec) : Commit([r.s EXCEPT !.ec = e])
         /\ pc' = [pc EXCEPT !["dev"] = "latching"]
         /\ UNCHANGED <<thinkpad_ec_mutex, held, ret>>

\* hdaps_device_init with the gate taken: the latch check and the writes
\* and waits of the latch sequence
DevLatch ==
    /\ pc["dev"] = "locked"
    /\ DevLatching(thinkpad_ec_read_row(Eng, LatchArgs, FreshData(65535)))
    /\ UNCHANGED <<jiffies, last, hist, count, hdaps_timer, region>>

\* hdaps_device_init after the latch sequence: it timed out (ok false, goto
\* out), or it went through to tp_controller_invalidate() and the
\* prefetch; then out/good: tp_controller_invalidate();
\* tp_controller_unlock()
DevFinish(ok) ==
    /\ pc["dev"] = "latching"
    /\ DevLatched(Eng, ok)
    /\ thinkpad_ec_unlock("dev")
    /\ pc' = [pc EXCEPT !["dev"] = "idle"]
    /\ UNCHANGED <<jiffies, last, hist, count, hdaps_timer, region>>

Next ==
    \/ BatLock
    \/ \E bat \in {0, 1} : BatReadRow(bat)
    \/ SmapiLock
    \/ \E rc \in SmapiCodes : SmapiSMI(rc)
    \/ UpdLock
    \/ UpdUpdate
    \/ PollTryLock
    \/ PollUpdate
    \/ PollKeepActive
    \/ DevLock
    \/ \E ok \in BOOLEAN : DevInit(ok)

\* the consumers, running concurrently on an EC that answers at once
InitPrompt == InitLate /\ ec.lat = 0

Spec == InitPrompt /\ [][Next]_vars

\* the consumers that work on the EC past the row operations, in two steps
\* each, and the accelerometer poll
NextDirect ==
    \/ SmapiLock
    \/ SmapiCall
    \/ \E rc \in SmapiCodes : SmapiOut(rc)
    \/ DevLock
    \/ DevLatch
    \/ \E ok \in BOOLEAN : DevFinish(ok)
    \/ PollTryLock
    \/ PollUpdate
    \/ PollKeepActive

SpecDirect == InitPrompt /\ [][NextDirect]_vars

\* the attribute readers of the battery and of the accelerometer, on an EC
\* that wedges or whose firmware hangs
NextWedged ==
    \/ BatLock
    \/ \E bat \in {0, 1} : BatReadRow(bat)
    \/ UpdLock
    \/ UpdUpdate
    \/ \E st \in Patterns : ECFault(st)
    \/ \E ph \in {"ibf", "quiet", "reply"} : ECHang(ph)

SpecWedged == InitLate /\ [][NextWedged]_vars

\* the states the EC can be left in by whoever used it before: idle, at
\* work on a request, or holding a reply nobody has read
PollECs ==
    LET reqs == {<<17, 1>>, <<1, 0>>}
    IN  HealthyEC
        \cup {ECEnter([e EXCEPT !.fn = q[1], !.term = q[2]], "ibf") :
                  e \in HealthyEC, q \in reqs}
        \cup {[e EXCEPT !.phase = "ready", !.fn = q[1], !.term = q[2]] :
                  e \in HealthyEC, q \in reqs}

\* hdaps_init has added the poll timer at boot time; the entry is junk
\* or has been eaten up, with the anchors of whatever was fetched last
InitPoll ==
    /\ ec \in PollECs
    /\ prefetch_jiffies \in {TPC_PREFETCH_JUNK, TPC_PREFETCH_NONE}
    /\ \E q \in {<<0, 0>>, <<17, 1>>, <<1, 0>>} :
          prefetch_arg0 = q[1] /\ prefetch_argF = q[2]
    /\ jiffies = INITIAL_JIFFIES
    /\ last = NoCall
    /\ hist = NoHist
    /\ ConsumersInit

\* the module is not loaded: the statics of thinkpad_ec.c have their
\* initial values, nobody uses the lock, the EC is in whatever state the
\* firmware and the BIOS left it
InitUnloaded ==
    /\ ec \in PollECs
    /\ prefetch_jiffies = 0
    /\ prefetch_arg0 = 0
    /\ prefetch_argF = 0
    /\ jiffies = INITIAL_JIFFIES
    /\ last = NoCall
    /\ hist = NoHist
    /\ region = FALSE
    /\ thinkpad_ec_mutex = 1
    /\ pc = [p \in Procs |-> "idle"]
    /\ held = {}
    /\ ret = [who |-> "none", val |-> 0, row |-> 0]
    /\ count = [p \in Procs |-> 0]
    /\ hdaps_timer = FALSE

NextInit ==
    \/ \E dmi \in BOOLEAN, free \in BOOLEAN : ModuleInit(dmi, free)
    \/ ModuleExit
    \/ Tick
    \/ \E st \in Patterns : ECFault(st)
    \/ \E ph \in {"ibf", "quiet", "reply"} : ECHang(ph)

\* loading and unloading thinkpad_ec, on an EC that may wedge or hang
SpecInit == InitUnloaded /\ [][NextInit]_vars

NextPoll ==
    \/ PollExpires
    \/ PollUpdate

\* the accelerometer poll, the only caller, once every HDAPS_POLL_PERIOD
SpecPoll == InitPoll /\ [][NextPoll]_vars

(***************************************************************************)
(* The claims                                                              *)
(***************************************************************************)
\* C1: mutual exclusion -- at most one consumer is ever between a
\* successful acquire of the controller lock and its release.  Checked
\* under Spec, where the battery reader, the SMAPI caller, hdaps_update,
\* hdaps_device_init and the accelerometer poll run concurrently.
MutualExclusion == Cardinality(held) <= 1

\* C2: release pairing -- every unlock answers one successful acquire, so
\* the count of the semaphore and the number of holders always add up to the
\* initial count, and the count never exceeds 1.  Checked under Spec.
ReleasePairing ==
    /\ thinkpad_ec_mutex + Cardinality(held) = 1
    /\ thinkpad_ec_mutex <= 1

\* the number of times the call read port, and of its writes to any port
Reads(io, port) ==
    Cardinality({k \in 1..Len(io) : io[k][1] = "in" /\ io[k][2] = port})
Writes(io) == {k \in 1..Len(io) : io[k][1] = "out"}
\* the call touched no register
NoAccess(io) == \A k \in 1..Len(io) : io[k][1] \notin {"in", "out"}

\* C3: read_row with a request whose mask bit 0 is clear returns -EINVAL
\* and touches no register, whatever the state of the prefetch cache.
\* Checked under SpecRow.
BadMaskRejected ==
    (last.op = "read_row" /\ ~MaskBit(last.args.mask, 0))
        => (last.ret = -EINVAL /\ NoAccess(last.io))

\* C4: read_row of a request with mask bit 0 set, against an idle EC that
\* answers at once, succeeds, and reads data slot 0 and data slot 15 once
\* each.  Checked under SpecRow.
PromptReadOnce ==
    (/\ last.op = "read_row"
     /\ MaskBit(last.args.mask, 0)
     /\ last.ec0 = [phase |-> "idle", lat |-> 0, hang |-> "none",
                    stuck |-> -1])
        => /\ last.ret = 0
           /\ Reads(last.io, TPC_TWR0_PORT) = 1
           /\ Reads(last.io, TPC_TWR15_PORT) = 1

PromptReadSeen ==
    /\ last.op = "read_row"
    /\ MaskBit(last.args.mask, 0)
    /\ last.ec0 = [phase |-> "idle", lat |-> 0, hang |-> "none", stuck |-> -1]
    /\ last.ret = 0
    /\ last.data.mask = 32773
    /\ last.data.val[0] # Stale

\* C5: read_row of a request that counts as fetched writes no register and
\* starts with the status read of the read sub-protocol; otherwise no data
\* register is read before the request has been written out to its
\* terminator, and a request that fails is followed by no read attempt.
\* Checked under SpecRow.
HitSkipsRequest ==
    last.op = "read_row" =>
        IF last.hit
        THEN /\ Writes(last.io) = {}
             /\ Len(last.io) > 0
             /\ last.io[1][1] = "in" /\ last.io[1][2] = TPC_STR3_PORT
        ELSE /\ \A k \in 1..Len(last.io) :
                  (last.io[k][1] = "in" /\ last.io[k][2] = TPC_TWR0_PORT)
                      => \E j \in 1..(k - 1) :
                            /\ last.io[j][1] = "out"
                            /\ last.io[j][2] = TPC_TWR15_PORT
             /\ "failed requesting row" \in
                        {last.log[k] : k \in 1..Len(last.log)}
                    => Reads(last.io, TPC_TWR0_PORT) = 0

HitSkipsRequestSeen ==
    /\ last.op = "read_row"
    /\ last.hit
    /\ last.ret = 0
    /\ Writes(last.io) = {}

\* what prefetch_row(R), try_read_row(R) right after it, and read_row(R)
\* in its place give from the present state
PrefetchOf(R) == thinkpad_ec_prefetch_row(Eng, R)
TryAfterPrefetch(R, mask) ==
    thinkpad_ec_try_read_row(PrefetchOf(R).s, R, FreshData(mask))
DirectRead(R, mask) == thinkpad_ec_read_row(Eng, R, FreshData(mask))

\* C6, as stated: whenever prefetch_row(R) succeeds, try_read_row(R) right
\* after it returns the result code and the response bytes that read_row(R)
\* returns from the same state, whatever the reply latency of the EC.
\* Checked under SpecRow.
PrefetchThenTryEquivalent ==
    \A R \in Requests, mask \in DataMasks :
        PrefetchOf(R).ret = 0 =>
            /\ TryAfterPrefetch(R, mask).ret = DirectRead(R, mask).ret
            /\ TryAfterPrefetch(R, mask).data = DirectRead(R, mask).data

\* C6, amended: whenever prefetch_row(R) succeeds, read_row(R) from the
\* same state succeeds, and try_read_row(R) right after the prefetch
\* returns -ENODATA if the clock stands at one of the two values that mark
\* an entry as none or junk, else -EBUSY if the EC takes more than one
\* status read to produce its reply, else 0; when it returns 0 its response
\* bytes are those of read_row(R).  Checked under SpecRow.
PrefetchThenTryAgrees ==
    \A R \in Requests, mask \in DataMasks :
        PrefetchOf(R).ret = 0 =>
            /\ DirectRead(R, mask).ret = 0
            /\ TryAfterPrefetch(R, mask).ret =
                  IF jiffies \in {TPC_PREFETCH_NONE, TPC_PREFETCH_JUNK}
                  THEN -ENODATA
                  ELSE IF ec.lat > 0 THEN -EBUSY ELSE 0
            /\ TryAfterPrefetch(R, mask).ret = 0 =>
                  TryAfterPrefetch(R, mask).data = DirectRead(R, mask).data

PrefetchThenTrySeen ==
    /\ last.op = "try_read_row"
    /\ last.chain.op = "prefetched"
    /\ last.chain.args = last.args
    /\ last.now = last.pj0
    /\ last.ret = 0
    /\ last.data.val[0] = ECReply(last.args.val[0], 1, 0)

\* C7: while no prefetch_row has succeeded since the driver started or
\* since the last read_row, successful try_read_row or invalidate,
\* try_read_row returns -ENODATA and touches no register.  Checked under
\* SpecRow.
NoPrefetchNoData ==
    (last.op = "try_read_row" /\ ~last.chain.armed)
        => (last.ret = -ENODATA /\ NoAccess(last.io))

NoPrefetchNoDataSeen ==
    /\ last.op = "try_read_row"
    /\ ~last.chain.armed
    /\ prefetch_arg0 = last.args.val[0]
    /\ prefetch_argF = last.args.val[15]
    /\ last.ec0.phase = "idle"
    /\ last.ret = -ENODATA

\* C8: try_read_row(R) that follows a successful prefetch_row(R) made at
\* clock value t, with no call in between, returns -ENODATA and touches no
\* register when the clock has reached t + TPC_PREFETCH_TIMEOUT; and a row
\* counts as fetched only while the clock is below that.  Checked under
\* SpecRow.
PrefetchExpires ==
    /\ (/\ last.op = "try_read_row"
        /\ last.chain.op = "prefetched"
        /\ last.chain.args = last.args
        /\ last.now >= last.pj0 + TPC_PREFETCH_TIMEOUT)
           => (last.ret = -ENODATA /\ NoAccess(last.io))
    /\ (last.op \in {"try_read_row", "read_row"} /\ last.hit)
           => last.now < last.pj0 + TPC_PREFETCH_TIMEOUT

PrefetchExpiresSeen ==
    /\ last.op = "try_read_row"
    /\ last.chain.op = "prefetched"
    /\ last.chain.args = last.args
    /\ last.pj0 > TPC_PREFETCH_JUNK
    /\ last.now = last.pj0 + TPC_PREFETCH_TIMEOUT
    /\ last.ec0.phase = "ready"
    /\ last.ret = -ENODATA

\* C9: try_read_row that follows invalidate returns -ENODATA and touches no
\* register, whatever the prefetch entry was before; and invalidate touches
\* no register.  Checked under SpecRow.
InvalidateThenNoData ==
    /\ (last.op = "try_read_row" /\ last.chain.op = "invalidate")
           => (last.ret = -ENODATA /\ NoAccess(last.io))
    /\ last.op = "invalidate" => last.io = <<>>

InvalidateThenNoDataSeen ==
    /\ last.op = "try_read_row"
    /\ last.chain.op = "invalidate"
    /\ last.chain.args = last.args
    /\ last.ec0.phase = "ready"
    /\ last.now < prefetch_jiffies + TPC_PREFETCH_TIMEOUT - 1
    /\ last.ret = -ENODATA

\* the EC, as it stood when the call began, answers every request attempt
\* with a transient-busy status: wedged with the output buffer shown full or
\* with only SWMF shown, or hung while writing a reply
BusyToRequests(e) ==
    \/ e.stuck >= 0 /\ (HasBit(e.stuck, H8S_STR3_OBF3B)
                            \/ e.stuck = H8S_STR3_SWMF)
    \/ e.stuck < 0 /\ e.hang = "reply" /\ e.phase = "reply"
\* ... and every read attempt: wedged showing one of the three patterns of
\* a reply in progress, or hung while writing a reply
BusyToReads(e) ==
    \/ e.stuck \in {H8S_STR3_IBF3B + H8S_STR3_MWMF, 0, H8S_STR3_SWMF}
    \/ e.stuck < 0 /\ e.hang = "reply" /\ e.phase = "reply"
\* the call's trace reduced to its status reads and its delays of
\* TPC_READ_NDELAY
IsStatusRead(x) == x[1] = "in" /\ x[2] = TPC_STR3_PORT
IsReadDelay(x) == x = <<"ndelay", TPC_READ_NDELAY, 0>>
Attempts(io) == SelectSeq(io, LAMBDA x : IsStatusRead(x) \/ IsReadDelay(x))
\* the trace ends with n attempts that were answered busy, each a status
\* read followed by one delay before the next status read, and holds no
\* other delay
EndsWithBusyAttempts(io, n) ==
    LET a == Attempts(io)
        first == Len(a) - 2 * n
    IN  /\ first >= 0
        /\ Len(io) > 0 /\ IsReadDelay(io[Len(io)])
        /\ \A i \in 1..first : IsStatusRead(a[i])
        /\ \A i \in 1..n : /\ IsStatusRead(a[first + 2 * i - 1])
                           /\ IsReadDelay(a[first + 2 * i])

\* C10: against an EC that answers every attempt with a transient-busy
\* status, read_row returns -EBUSY after TPC_READ_RETRIES attempts -- of the
\* request when the row is not fetched and the requests are answered busy,
\* of the read when the row is fetched (or the request gets through) and
\* the reads are answered busy -- each attempt followed by one delay of
\* TPC_READ_NDELAY, the last one included.  Checked under SpecFault.
BusyAfterAllRetries ==
    (/\ last.op = "read_row"
     /\ \/ ~last.hit /\ MaskBit(last.args.mask, 0)
              /\ BusyToRequests(last.ec0)
        \/ last.hit /\ BusyToReads(last.ec0)
        \/ ~last.hit /\ MaskBit(last.args.mask, 0)
              /\ last.ec0.stuck < 0 /\ last.ec0.hang = "reply"
              /\ last.ec0.phase = "idle")
        => /\ last.ret = -EBUSY
           /\ EndsWithBusyAttempts(last.io, TPC_READ_RETRIES)
           /\ ~(last.ec0.stuck < 0 /\ last.ec0.phase = "idle") =>
                 /\ Writes(last.io) = {}
                 /\ Len(Attempts(last.io)) = 2 * TPC_READ_RETRIES

BusyAfterAllRetriesSeen ==
    /\ last.op = "read_row"
    /\ last.hit
    /\ last.ec0.stuck = H8S_STR3_IBF3B + H8S_STR3_MWMF
    /\ last.ret = -EBUSY
    /\ Writes(last.io) = {}

\* C11: on every return from read_row -- with 0, -EBUSY, -EIO or -EINVAL,
\* the row having counted as fetched or not -- prefetch_jiffies is
\* TPC_PREFETCH_JUNK, and no request counts as fetched.  Checked under
\* SpecFault.
ReadRowLeavesJunk ==
    last.op = "read_row" =>
        /\ prefetch_jiffies = TPC_PREFETCH_JUNK
        /\ \A R \in Requests : ~thinkpad_ec_is_row_fetched(Eng, R)

ReadRowLeavesJunkSeen ==
    /\ last.op = "read_row"
    /\ last.hit
    /\ last.pj0 = last.now
    /\ last.ret = -EIO
    /\ prefetch_jiffies = TPC_PREFETCH_JUNK

\* a read_row or try_read_row that found the row fetched and returned 0
ConsumedEntry ==
    /\ last.op \in {"read_row", "try_read_row"}
    /\ last.hit
    /\ last.ret = 0
\* try_read_row, called now with any request of the anchors of the last
\* call, returns -ENODATA
SecondTryNoData ==
    \A R \in Requests, mask \in DataMasks :
        (R.val[0] = last.args.val[0] /\ R.val[15] = last.args.val[15])
            => thinkpad_ec_try_read_row(Eng, R, FreshData(mask)).ret
                   = -ENODATA

\* C12, as stated: a read_row or try_read_row that consumed a valid entry
\* and succeeded leaves prefetch_jiffies at TPC_PREFETCH_NONE, and
\* try_read_row with the same anchors right after it returns -ENODATA.
\* Checked under SpecRow.
ConsumedLeavesEmpty ==
    ConsumedEntry =>
        /\ prefetch_jiffies = TPC_PREFETCH_NONE
        /\ SecondTryNoData

\* C12, amended: a successful try_read_row that consumed a valid entry
\* leaves prefetch_jiffies at TPC_PREFETCH_NONE, a successful read_row that
\* consumed one leaves it at TPC_PREFETCH_JUNK; after either, try_read_row
\* with the same anchors returns -ENODATA.  Checked under SpecRow.
ConsumedNotReadTwice ==
    ConsumedEntry =>
        /\ prefetch_jiffies = IF last.op = "try_read_row"
                              THEN TPC_PREFETCH_NONE ELSE TPC_PREFETCH_JUNK
        /\ SecondTryNoData

ConsumedNotReadTwiceSeen ==
    /\ last.op = "try_read_row"
    /\ last.hit
    /\ last.ret = 0
    /\ last.now < last.pj0 + TPC_PREFETCH_TIMEOUT
    /\ prefetch_jiffies = TPC_PREFETCH_NONE
    /\ prefetch_arg0 = last.args.val[0]
    /\ prefetch_argF = last.args.val[15]

\* C13: try_read_row writes no register, never delays to retry, and makes
\* at most one read attempt: its port trace is empty, or starts with the
\* status read of the read sub-protocol and holds at most one more status
\* read, its last access, with slot 0 and slot 15 read at most once; when
\* it returns -ENODATA it touches no register and leaves the engine's state
\* and the response row as they were.  Checked under SpecRow.
TryReadNoRequestNoRetry ==
    /\ last.op = "try_read_row" =>
          /\ Writes(last.io) = {}
          /\ \A k \in 1..Len(last.io) :
                /\ last.io[k][1] = "in"
                /\ IsStatusRead(last.io[k]) => (k = 1 \/ k = Len(last.io))
          /\ Len(last.io) > 0 => IsStatusRead(last.io[1])
          /\ Reads(last.io, TPC_TWR0_PORT) <= 1
          /\ Reads(last.io, TPC_TWR15_PORT) <= 1
          /\ last.ret = -ENODATA =>
                /\ last.io = <<>>
                /\ last.data = FreshData(last.data.mask)
                /\ prefetch_jiffies = last.pj0
    /\ \A R \in Requests, mask \in DataMasks :
          With(thinkpad_ec_try_read_row(Eng, R, FreshData(mask)), LAMBDA r :
              r.ret = -ENODATA => (r.s = Eng /\ r.data = FreshData(mask)))

TryReadNoRequestNoRetrySeen ==
    /\ last.op = "try_read_row"
    /\ last.hit
    /\ last.ec0.phase \in {"ibf", "quiet", "reply"}
    /\ last.ret = -EBUSY
    /\ Len(last.io) = 1

\* C14: prefetch_row(R) makes one request attempt and no retry: it never
\* delays by TPC_READ_NDELAY, writes slot 0 and slot 15 at most once each,
\* starts with the status read of the request (or touches no register when
\* mask bit 0 is clear), and a busy answer ends it after that status read
\* and at most the one draining read of slot 15; it reads no data slot
\* other than that draining read.  When it returns 0 the entry holds R's
\* anchors and the clock as its timestamp, and R counts as fetched; when
\* it returns -EBUSY, -EIO or -EINVAL the entry is junk.  Checked under
\* SpecRow, whose clock starts at INITIAL_JIFFIES.
PrefetchOneRequest ==
    last.op = "prefetch_row" =>
        /\ \A k \in 1..Len(last.io) :
              /\ ~IsReadDelay(last.io[k])
              /\ last.io[k][1] = "in" =>
                    last.io[k][2] \in {TPC_STR3_PORT, TPC_TWR15_PORT}
        /\ Cardinality({k \in Writes(last.io) :
                            last.io[k][2] = TPC_TWR0_PORT}) <= 1
        /\ Cardinality({k \in Writes(last.io) :
                            last.io[k][2] = TPC_TWR15_PORT}) <= 1
        /\ Reads(last.io, TPC_TWR15_PORT) <= 1
        /\ IF MaskBit(last.args.mask, 0)
           THEN Len(last.io) > 0 /\ IsStatusRead(last.io[1])
           ELSE last.io = <<>> /\ last.ret = -EINVAL
        /\ last.ret = -EBUSY =>
              /\ Len(last.io) <= 2
              /\ Writes(last.io) = {}
              /\ Reads(last.io, TPC_STR3_PORT) = 1
        /\ IF last.ret = 0
           THEN /\ prefetch_jiffies = last.now
                /\ prefetch_arg0 = last.args.val[0]
                /\ prefetch_argF = last.args.val[15]
                /\ thinkpad_ec_is_row_fetched(Eng, last.args)
           ELSE /\ last.ret \in {-EBUSY, -EIO, -EINVAL}
                /\ prefetch_jiffies = TPC_PREFETCH_JUNK

PrefetchOneRequestSeen ==
    /\ last.op = "prefetch_row"
    /\ last.ret = 0
    /\ last.args.val[0] = 1
    /\ prefetch_jiffies = jiffies
    /\ prefetch_arg0 = 1
    /\ prefetch_argF = 0
    /\ Writes(last.io) # {}

\* requests R1 and R2 differ in an anchor
OtherAnchors(R1, R2) ==
    R1.val[0] # R2.val[0] \/ R1.val[15] # R2.val[15]
\* the call that left state r.s ran the request sub-protocol: it wrote the
\* request out, or it reports that the request failed
RanRequest(r) ==
    \/ Writes(r.s.io) # {}
    \/ \E k \in 1..Len(r.s.log) : r.s.log[k] = "failed requesting row"
\* R does not count as fetched now: try_read_row(R) returns -ENODATA and
\* read_row(R) runs the request sub-protocol
NotFetchedNow(R) ==
    /\ ~thinkpad_ec_is_row_fetched(Eng, R)
    /\ \A mask \in DataMasks :
          /\ thinkpad_ec_try_read_row(Eng, R, FreshData(mask)).ret = -ENODATA
          /\ RanRequest(thinkpad_ec_read_row(Eng, R, FreshData(mask)))

\* C15: the cache holds one entry.  After prefetch_row(R2) has returned,
\* whatever it returned, no request with other anchors than R2's counts as
\* fetched; in particular not the R1 of a prefetch_row(R1) that succeeded
\* right before it.  Checked under SpecRow.
SecondPrefetchEvicts ==
    last.op = "prefetch_row" =>
        /\ \A R1 \in Requests :
              OtherAnchors(R1, last.args) => NotFetchedNow(R1)
        /\ (last.chain.op = "prefetched"
               /\ OtherAnchors(last.chain.args, last.args))
              => NotFetchedNow(last.chain.args)

SecondPrefetchEvictsSeen ==
    /\ last.op = "prefetch_row"
    /\ last.chain.op = "prefetched"
    /\ OtherAnchors(last.chain.args, last.args)
    /\ last.now < last.pj0 + TPC_PREFETCH_TIMEOUT
    /\ last.pj0 > TPC_PREFETCH_JUNK
    /\ prefetch_arg0 = last.chain.args.val[0]
    /\ prefetch_argF = last.chain.args.val[15]
    /\ last.ret = -EBUSY

\* a row operation that touched the registers and returned -EBUSY or -EIO
FailedCycle ==
    /\ last.op \in {"read_row", "try_read_row", "prefetch_row"}
    /\ ~NoAccess(last.io)
    /\ last.ret \in {-EBUSY, -EIO}

\* C16, as stated: whenever read_row, try_read_row or prefetch_row has run
\* the request or the read sub-protocol and returns -EBUSY or -EIO, the
\* entry is junk on return.  Checked under SpecFault.
FailedCycleLeavesJunk ==
    FailedCycle => prefetch_jiffies = TPC_PREFETCH_JUNK

\* C16, amended: after such a read_row or prefetch_row the entry is junk;
\* after such a try_read_row the entry is what it was before the call,
\* still valid; it is never empty.  Checked under SpecFault.
FailedCycleNeverEmpty ==
    FailedCycle =>
        /\ prefetch_jiffies # TPC_PREFETCH_NONE
        /\ IF last.op = "try_read_row"
           THEN /\ prefetch_jiffies = last.pj0
                /\ thinkpad_ec_is_row_fetched(Eng, last.args)
           ELSE prefetch_jiffies = TPC_PREFETCH_JUNK

FailedCycleNeverEmptySeen ==
    /\ last.op = "try_read_row"
    /\ last.hit
    /\ last.ec0.stuck >= 0
    /\ last.ret = -EIO
    /\ prefetch_jiffies = last.pj0
    /\ Len(last.log) = 1

\* the messages of the sub-protocols that go with -EIO and -EINVAL
HardMessages ==
    {"bad initial STR3", "arg0 rejected", "bad end STR3",
     "EC is mysteriously silent", "bad initial STR3 (read)",
     "bad args->mask"}
ReadMessages == {"bad initial STR3 (read)", "OBF3B=1 after read",
                 "failed waiting for data"}
\* the masked status the EC showed when the call began
StatusAt(e) == IF e.stuck >= 0 THEN e.stuck ELSE PhaseSTR3[e.phase]

\* C17: read_row goes round again only after -EBUSY.  When it returns -EIO
\* or -EINVAL, exactly one sub-protocol attempt failed hard and it was the
\* last: its message is followed by nothing but the closing message of
\* read_row, and no delay follows it.  When the request phase fails, the
\* read sub-protocol is not entered: no read message is logged, slot 0 is
\* not read, and no status read follows another directly.  try_read_row
\* returns -EBUSY exactly when the row is fetched and the status is one of
\* the three not-ready patterns; prefetch_row returns -EBUSY exactly when
\* the request's initial status shows the output buffer full or SWMF
\* alone.  Checked under SpecFault.
RetryOnlyBusy ==
    /\ (last.op = "read_row" /\ last.ret \in {-EIO, -EINVAL}) =>
          /\ Len(last.log) >= 2
          /\ last.log[Len(last.log) - 1] \in HardMessages
          /\ \A k \in 1..(Len(last.log) - 2) :
                last.log[k] \notin HardMessages
          /\ last.log[Len(last.log)] \in
                {"failed requesting row", "failed waiting for data"}
          /\ Len(last.io) > 0 => ~IsReadDelay(last.io[Len(last.io)])
          /\ last.ret = -EINVAL => last.io = <<>>
    /\ (last.op = "read_row"
          /\ \E k \in 1..Len(last.log) :
                last.log[k] = "failed requesting row") =>
          /\ last.ret # 0
          /\ \A k \in 1..Len(last.log) : last.log[k] \notin ReadMessages
          /\ Reads(last.io, TPC_TWR0_PORT) = 0
          /\ \A k \in 1..(Len(last.io) - 1) :
                ~(IsStatusRead(last.io[k]) /\ IsStatusRead(last.io[k + 1]))
          /\ last.ret = -EBUSY =>
                (Len(last.io) > 0 /\ IsReadDelay(last.io[Len(last.io)]))
    /\ last.op = "try_read_row" =>
          (last.ret = -EBUSY <=>
              /\ last.hit
              /\ StatusAt(last.ec0) \in
                    {H8S_STR3_IBF3B + H8S_STR3_MWMF, 0, H8S_STR3_SWMF})
    /\ last.op = "prefetch_row" =>
          (last.ret = -EBUSY <=>
              /\ MaskBit(last.args.mask, 0)
              /\ \/ HasBit(StatusAt(last.ec0), H8S_STR3_OBF3B)
                 \/ StatusAt(last.ec0) = H8S_STR3_SWMF)

RetryOnlyBusySeen ==
    /\ last.op = "read_row"
    /\ last.hit
    /\ last.ec0.stuck = H8S_STR3_MWMF
    /\ last.ret = -EIO
    /\ last.log = <<"bad initial STR3 (read)", "failed waiting for data">>
    /\ Len(last.io) = 1

\* consumer p gets past its acquire of the lock in this step
Acquires(p) == pc[p] \in {"idle", "retry"} /\ pc'[p] = "locked"
\* thinkpad_ec_lock() of consumer p returns -EINTR in this step
Interrupted(p) ==
    /\ pc[p] = "idle"
    /\ ret' # ret
    /\ ret' = [who |-> p, val |-> -EINTR, row |-> 0]
\* the lock was free and is now held by p
TakesFreeGate(p) ==
    /\ thinkpad_ec_mutex > 0
    /\ thinkpad_ec_mutex' = thinkpad_ec_mutex - 1
    /\ held' = held \cup {p}

EntryValid ==
    /\ prefetch_jiffies \notin {TPC_PREFETCH_NONE, TPC_PREFETCH_JUNK}
    /\ jiffies < prefetch_jiffies + TPC_PREFETCH_TIMEOUT
\* smapi_request or hdaps_device_init has returned, and no row operation
\* has been run since
DirectAccessReturned ==
    \/ ret.who = "smapi" /\ ret.val # -EINTR
    \/ ret.who = "dev"
\* smapi_request or hdaps_device_init is at work on the EC by itself and
\* has not yet called invalidate
DirectAccessPending == pc["smapi"] = "smi" \/ pc["dev"] = "latching"

\* C19: smapi_request and hdaps_device_init call invalidate after their
\* direct access to the EC and before unlock, on every exit path: when
\* they have returned the entry is junk; and whenever the lock is free, the
\* entry is not valid while a direct access is at work on the EC.
\* Checked under SpecDirect.
InvalidateBeforeUnlock ==
    /\ DirectAccessReturned => prefetch_jiffies = TPC_PREFETCH_JUNK
    /\ (thinkpad_ec_mutex > 0 /\ DirectAccessPending) => ~EntryValid

\* an attribute reader has returned to user space after its last read_row
\* ended in -EBUSY
ReaderSawBusy ==
    /\ ret.who \in {"bat", "upd"}
    /\ pc[ret.who] = "idle"
    /\ ret.row = -EBUSY

IsIn(a, port) == a[1] = "in" /\ a[2] = port
IsOut(a, port) == a[1] = "out" /\ a[2] = port
\* the masked STR3 pattern that access a, a status read, showed
Shown(a) == Str3Mask(a[3])

\* C21: the initial status check of a request (prefetch_row of a request
\* with mask bit 0 set is one request attempt).  The attempt starts with a
\* status read.  If it shows output-buffer-full, the terminal register is
\* read once, nothing else is touched and the result is -EBUSY; if it shows
\* slave-write-mode alone the result is -EBUSY with no further access; if it
\* shows 0x00 the attempt goes on to write arg0; any other pattern gives
\* -EIO with no further access.  Checked under SpecGlitch, where every one
\* of the 16 patterns is shown.
InitialRequestCheck ==
    (last.op = "prefetch_row" /\ MaskBit(last.args.mask, 0)) =>
        /\ Len(last.io) >= 1
        /\ IsIn(last.io[1], TPC_STR3_PORT)
        /\ LET str3 == Shown(last.io[1])
           IN  IF HasBit(str3, H8S_STR3_OBF3B)
               THEN /\ last.ret = -EBUSY
                    /\ Len(last.io) = 2
                    /\ IsIn(last.io[2], TPC_TWR15_PORT)
               ELSE IF str3 = H8S_STR3_SWMF
               THEN last.ret = -EBUSY /\ Len(last.io) = 1
               ELSE IF str3 = 0
               THEN /\ Len(last.io) >= 2
                    /\ last.io[2] = <<"out", TPC_TWR0_PORT, last.args.val[0]>>
               ELSE last.ret = -EIO /\ Len(last.io) = 1

InitialRequestCheckSeen ==
    /\ last.op = "prefetch_row"
    /\ MaskBit(last.args.mask, 0)
    /\ Shown(last.io[1]) = H8S_STR3_IBF3B + H8S_STR3_OBF3B
    /\ last.ret = -EBUSY
    /\ Len(last.io) = 2

\* C22: in a request attempt of prefetch_row or read_row, the write of arg0
\* is followed by a status read; if that read shows exactly
\* master-write-mode the attempt goes on to the write of the terminator,
\* and for every other pattern the call returns -EIO and writes no register
\* after arg0.  Checked under SpecGlitch, where the EC answers arg0 with
\* each of the 16 patterns.
ArgZeroAccepted ==
    last.op \in {"prefetch_row", "read_row"} =>
        \A k \in 1..Len(last.io) :
            IsOut(last.io[k], TPC_TWR0_PORT) =>
                /\ k < Len(last.io)
                /\ IsIn(last.io[k + 1], TPC_STR3_PORT)
                /\ IF Shown(last.io[k + 1]) = H8S_STR3_MWMF
                   THEN \E j \in (k + 2)..Len(last.io) :
                           /\ IsOut(last.io[j], TPC_TWR15_PORT)
                           /\ \A i \in (k + 2)..j : last.io[i][1] = "out"
                   ELSE /\ last.ret = -EIO
                        /\ Len(last.io) = k + 1

ArgZeroAcceptedSeen ==
    /\ last.op = "prefetch_row"
    /\ Len(last.io) = 3
    /\ IsOut(last.io[2], TPC_TWR0_PORT)
    /\ Shown(last.io[3]) = H8S_STR3_SWMF
    /\ last.ret = -EIO

\* the writes of a call, in order
OutsOf(io) == SelectSeq(io, LAMBDA a : a[1] = "out")
\* the writes of one whole request: slot 0, the mask-selected slots among
\* 1..14 in ascending order, then slot 15 with the terminator
RequestWrites(args) ==
    SelectSeq([i \in 1..TP_CONTROLLER_ROW_LEN |->
                  <<"out", TPC_TWR0_PORT + (i - 1),
                    IF i = TP_CONTROLLER_ROW_LEN /\ ~MaskBit(args.mask, 15)
                    THEN 1 ELSE args.val[i - 1]>>],
              LAMBDA a : \/ a[2] \in {TPC_TWR0_PORT, TPC_TWR15_PORT}
                         \/ MaskBit(args.mask, a[2] - TPC_TWR0_PORT))
\* some request attempt of the call had its arg0 accepted
PassedArgZero(io) ==
    \E k \in 1..(Len(io) - 1) :
        /\ IsOut(io[k], TPC_TWR0_PORT)
        /\ Shown(io[k + 1]) = H8S_STR3_MWMF

\* C23: when a request attempt of prefetch_row or read_row has its arg0
\* accepted, the writes of the call are exactly: slot 0; the mask-selected
\* slots among 1..14 in ascending order; slot 15, once and last, with
\* val[15] if mask bit 15 is set and 0x01 otherwise.  Checked under SpecRow.
RequestWriteOrder ==
    (last.op \in {"prefetch_row", "read_row"} /\ PassedArgZero(last.io))
        => OutsOf(last.io) = RequestWrites(last.args)

RequestWriteOrderSeen ==
    /\ last.op = "prefetch_row"
    /\ last.args.mask = 7
    /\ PassedArgZero(last.io)
    /\ Len(OutsOf(last.io)) = 4
    /\ OutsOf(last.io)[4] = <<"out", TPC_TWR15_PORT, 1>>

\* the place of the write of the terminator in the accesses of a call that
\* made one (0 if it made none)
EndWritten(io) ==
    IF \E k \in 1..Len(io) : IsOut(io[k], TPC_TWR15_PORT)
    THEN CHOOSE k \in 1..Len(io) : IsOut(io[k], TPC_TWR15_PORT)
    ELSE 0
\* the status reads after place t
PollsAfter(io, t) ==
    {j \in (t + 1)..Len(io) : IsIn(io[j], TPC_STR3_PORT)}
NormalProgress(str3) == str3 = H8S_STR3_IBF3B + H8S_STR3_MWMF \/ str3 = 0

\* C24: in a prefetch_row that wrote the terminator, what follows is a run
\* of at least one and at most TPC_REQUEST_RETRIES status reads.  A read
\* that shows slave-write-mode is the last access and the result is 0; a
\* read that shows 0xA0 or 0x00 is followed by a delay of
\* TPC_REQUEST_NDELAY and then by the next read, if any; a read that shows
\* anything else is the last access and the result is -EIO.  Checked under
\* SpecGlitch, where the EC shows each of the 16 patterns at the first or
\* at a later poll.
ReplyStartPolling ==
    (last.op = "prefetch_row" /\ EndWritten(last.io) > 0) =>
        LET io == last.io
            t == EndWritten(io)
            polls == PollsAfter(io, t)
        IN  /\ Cardinality(polls) \in 1..TPC_REQUEST_RETRIES
            /\ t + 1 \in polls
            /\ \A j \in polls :
                  IF HasBit(Shown(io[j]), H8S_STR3_SWMF)
                  THEN j = Len(io) /\ last.ret = 0
                  ELSE IF NormalProgress(Shown(io[j]))
                  THEN /\ j < Len(io)
                       /\ io[j + 1] = <<"ndelay", TPC_REQUEST_NDELAY, 0>>
                       /\ j + 2 <= Len(io) => j + 2 \in polls
                  ELSE j = Len(io) /\ last.ret = -EIO
            /\ last.ret = 0 => HasBit(Shown(io[Len(io)]), H8S_STR3_SWMF)

\* the second poll shows output-buffer-full alone
ReplyStartPollingSeen ==
    /\ last.op = "prefetch_row"
    /\ EndWritten(last.io) > 0
    /\ Cardinality(PollsAfter(last.io, EndWritten(last.io))) = 2
    /\ Shown(last.io[Len(last.io)]) = H8S_STR3_OBF3B
    /\ last.ret = -EIO

\* the call wrote a terminator and then used up the polls of the request,
\* every one of them showing normal progress
Exhausted(io) ==
    /\ EndWritten(io) > 0
    /\ Cardinality(PollsAfter(io, EndWritten(io))) = TPC_REQUEST_RETRIES
    /\ \A j \in PollsAfter(io, EndWritten(io)) : NormalProgress(Shown(io[j]))
\* the number of request attempts of the call that got to write arg0
ArgZeroWrites(io) ==
    Cardinality({k \in 1..Len(io) : IsOut(io[k], TPC_TWR0_PORT)})
Logged(log, msg) == \E k \in 1..Len(log) : log[k] = msg

NoBusyOnceWritten ==
    /\ last.op = "prefetch_row" =>
          /\ last.ret = -EBUSY => Writes(last.io) = {}
          /\ Writes(last.io) # {} => last.ret \in {0, -EIO}
    /\ last.op = "read_row" =>
          /\ ArgZeroWrites(last.io) <= 1
          /\ (Logged(last.log, "failed requesting row")
                 /\ Writes(last.io) # {}) =>
                /\ last.ret = -EIO
                /\ \A k \in Writes(last.io) :
                      \A j \in (k + 1)..Len(last.io) :
                          last.io[j] # <<"ndelay", TPC_READ_NDELAY, 0>>

\* read_row wrote arg0 and had it rejected
NoBusyOnceWrittenSeen ==
    /\ last.op = "read_row"
    /\ Logged(last.log, "failed requesting row")
    /\ ArgZeroWrites(last.io) = 1
    /\ EndWritten(last.io) = 0
    /\ last.ret = -EIO
    /\ IsOut(last.io[Len(last.io) - 1], TPC_TWR0_PORT)

\* the call read no data register
NoDataRead(io) ==
    \A k \in 1..Len(io) :
        ~(io[k][1] = "in" /\ io[k][2] \in TPC_TWR0_PORT..TPC_TWR15_PORT)

\* C27: the initial status check of a read (try_read_row of a row that
\* counts as fetched is one read attempt).  The attempt starts with a status
\* read.  If it shows 0xA0, 0x00 or slave-write-mode alone the result is
\* -EBUSY; if it shows exactly output-buffer-full + slave-write-mode the
\* attempt goes on to read slot 0; any other pattern gives -EIO.  Unless it
\* goes on, the status read is its only access.  Checked under SpecFault,
\* where the EC wedges at each of the 16 patterns after a prefetch.
InitialReadCheck ==
    (last.op = "try_read_row" /\ last.hit) =>
        /\ Len(last.io) >= 1
        /\ IsIn(last.io[1], TPC_STR3_PORT)
        /\ LET str3 == Shown(last.io[1])
           IN  IF str3 \in {H8S_STR3_IBF3B + H8S_STR3_MWMF, 0, H8S_STR3_SWMF}
               THEN /\ last.ret = -EBUSY
                    /\ Len(last.io) = 1
                    /\ NoDataRead(last.io)
               ELSE IF str3 = H8S_STR3_OBF3B + H8S_STR3_SWMF
               THEN /\ Len(last.io) >= 2
                    /\ IsIn(last.io[2], TPC_TWR0_PORT)
               ELSE /\ last.ret = -EIO
                    /\ Len(last.io) = 1
                    /\ NoDataRead(last.io)

\* a wedged EC that shows 0x00 is taken for a busy one
InitialReadCheckSeen ==
    /\ last.op = "try_read_row"
    /\ last.hit
    /\ last.ec0.stuck = 0
    /\ Shown(last.io[1]) = 0
    /\ last.ret = -EBUSY

\* the reads of data registers of a call, in order
DataReads(io) ==
    SelectSeq(io, LAMBDA a : /\ a[1] = "in"
                             /\ a[2] \in TPC_TWR0_PORT..TPC_TWR15_PORT)
PortsOf(acc) == [k \in 1..Len(acc) |-> acc[k][2]]
\* the registers of one whole read: slot 0, the slots among 1..14 that the
\* response mask selects, in ascending order, then slot 15
ReadPorts(mask) ==
    SelectSeq([i \in 1..TP_CONTROLLER_ROW_LEN |-> TPC_TWR0_PORT + (i - 1)],
              LAMBDA q : \/ q \in {TPC_TWR0_PORT, TPC_TWR15_PORT}
                         \/ MaskBit(mask, q - TPC_TWR0_PORT))

\* C28: a successful read of a row that counts as fetched (try_read_row, or
\* read_row, which then makes no request) reads slot 0 first, then exactly
\* the slots among 1..14 that the response mask selects, in ascending
\* order, then slot 15, last and once -- also when the mask has bit 0 or
\* bit 15 clear.  Checked under SpecRow with response masks 0x4002 and
\* 0x8005.
ReadOrder ==
    (last.op \in {"try_read_row", "read_row"} /\ last.hit /\ last.ret = 0)
        => PortsOf(DataReads(last.io)) = ReadPorts(last.data.mask)

ReadOrderSeen ==
    /\ last.op = "try_read_row"
    /\ last.hit
    /\ last.ret = 0
    /\ last.data.mask = 16386
    /\ PortsOf(DataReads(last.io)) =
          <<TPC_TWR0_PORT, TPC_TWR0_PORT + 1, TPC_TWR0_PORT + 14,
            TPC_TWR15_PORT>>

\* the value the call read from port (the last time it did)
ValueRead(io, port) ==
    io[CHOOSE k \in 1..Len(io) :
          /\ IsIn(io[k], port)
          /\ \A j \in (k + 1)..Len(io) : ~IsIn(io[j], port)][3]

\* C29: when read_row or try_read_row has read the row (slot 0 was read),
\* the read of slot 15 is followed by one last status read and the call
\* returns 0 whatever that read shows: the warning "OBF3B=1 after read" is
\* logged exactly when it shows output-buffer-full, the response holds the
\* bytes read, and the prefetch entry is left junk by read_row and empty by
\* try_read_row as after any success.  Checked under SpecGlitch, where the
\* EC shows each of the 16 patterns after the read.
FinalStatusIgnored ==
    (last.op \in {"read_row", "try_read_row"}
        /\ Reads(last.io, TPC_TWR0_PORT) >= 1) =>
        LET n == Len(last.io)
        IN  /\ IsIn(last.io[n], TPC_STR3_PORT)
            /\ IsIn(last.io[n - 1], TPC_TWR15_PORT)
            /\ last.ret = 0
            /\ Logged(last.log, "OBF3B=1 after read")
                  <=> HasBit(Shown(last.io[n]), H8S_STR3_OBF3B)
            /\ last.data.val[0] = ValueRead(last.io, TPC_TWR0_PORT)
            /\ last.data.val[15] = last.io[n - 1][3]
            /\ prefetch_jiffies = IF last.op = "read_row"
                                  THEN TPC_PREFETCH_JUNK
                                  ELSE TPC_PREFETCH_NONE

FinalStatusIgnoredSeen ==
    /\ last.op = "read_row"
    /\ Reads(last.io, TPC_TWR0_PORT) = 1
    /\ Shown(last.io[Len(last.io)]) = H8S_STR3_IBF3B + H8S_STR3_OBF3B
    /\ Logged(last.log, "OBF3B=1 after read")
    /\ last.ret = 0
    /\ last.data.val[0] # Stale

\* the response row of a call that returned r, given d0 to fill
FrameKept(r, d0) ==
    IF r.ret = 0
    THEN /\ r.data.mask = d0.mask
         /\ \A i \in 0..(TP_CONTROLLER_ROW_LEN - 1) :
               IF i \in {0, 15} \/ MaskBit(d0.mask, i)
               THEN r.data.val[i] = ValueRead(r.s.io, TPC_TWR0_PORT + i)
               ELSE r.data.val[i] = d0.val[i]
    ELSE r.data = d0

\* C30: whatever the state of the EC and of the prefetch entry, for every
\* request and response mask: a read_row or try_read_row that returns 0
\* leaves in response slots 0 and 15 and in the slots 1..14 that the
\* response mask selects the bytes it read from those registers, leaves the
\* other slots and the mask as they were; one that returns an error
\* (-EBUSY, -EIO, -EINVAL, -ENODATA) leaves the whole response row as it
\* was.  Checked under SpecFault, in every reachable state.
ResponseFrame ==
    \A args \in Requests, mask \in DataMasks :
        /\ FrameKept(thinkpad_ec_read_row(Eng, args, FreshData(mask)),
                     FreshData(mask))
        /\ FrameKept(thinkpad_ec_try_read_row(Eng, args, FreshData(mask)),
                     FreshData(mask))

\* a read with response mask 0x4002 filled slots 0, 1, 14 and 15 only
ResponseFrameSeen ==
    /\ last.op = "try_read_row"
    /\ last.ret = 0
    /\ last.data.mask = 16386
    /\ {i \in 0..15 : last.data.val[i] # Stale} = {0, 1, 14, 15}

\* the delay between two attempts of read_row
IsRetryDelay(a) == a = <<"ndelay", TPC_READ_NDELAY, 0>>
RetryDelays(io, from, to) ==
    Cardinality({k \in from..to : IsRetryDelay(io[k])})
\* the place of the first write of the call (one past its end if it made
\* none)
FirstWrite(io) ==
    IF Writes(io) = {} THEN Len(io) + 1
    ELSE CHOOSE k \in Writes(io) : \A j \in Writes(io) : k <= j
\* 1 if the accesses end with an attempt that was not followed by a delay
OpenEnd(io) == IF Len(io) > 0 /\ ~IsRetryDelay(io[Len(io)]) THEN 1 ELSE 0
\* the request attempts of a read_row that found the row not fetched: those
\* that ended busy before any write, and the one that wrote or failed hard
RequestAttempts(io) ==
    RetryDelays(io, 1, FirstWrite(io) - 1)
        + (IF Writes(io) # {} THEN 1 ELSE OpenEnd(io))
\* the read attempts of a read_row whose accesses from place from on are
\* those of its read loop
ReadAttemptsFrom(io, from) == RetryDelays(io, from, Len(io)) + OpenEnd(io)

\* C31: every row operation ends within fixed numbers of accesses.
\* prefetch_row, one request attempt, makes at most 2 + TPC_REQUEST_RETRIES
\* status reads; try_read_row makes at most one read attempt (two status
\* reads, no delay); read_row makes at most TPC_READ_RETRIES request
\* attempts, none if the row counts as fetched, and then at most
\* TPC_READ_RETRIES read attempts, none if the request failed.  Checked
\* under SpecFault, against an EC that is healthy, hangs in a reply phase or
\* is wedged at any status.
BoundedAttempts ==
    /\ last.op = "prefetch_row" =>
          Reads(last.io, TPC_STR3_PORT) <= 2 + TPC_REQUEST_RETRIES
    /\ last.op = "try_read_row" =>
          /\ Reads(last.io, TPC_STR3_PORT) <= 2
          /\ RetryDelays(last.io, 1, Len(last.io)) = 0
          /\ Writes(last.io) = {}
    /\ (last.op = "read_row" /\ last.hit) =>
          /\ Writes(last.io) = {}
          /\ ReadAttemptsFrom(last.io, 1) <= TPC_READ_RETRIES
    /\ (last.op = "read_row" /\ ~last.hit) =>
          /\ RequestAttempts(last.io) <= TPC_READ_RETRIES
          /\ Reads(last.io, TPC_STR3_PORT) <=
                RequestAttempts(last.io) + 1 + TPC_REQUEST_RETRIES
                    + 2 * TPC_READ_RETRIES
          /\ IF Logged(last.log, "failed requesting row")
             THEN RetryDelays(last.io, FirstWrite(last.io), Len(last.io)) = 0
             ELSE ReadAttemptsFrom(last.io, FirstWrite(last.io))
                      <= TPC_READ_RETRIES

\* read_row used up all its request attempts against a busy EC
BoundedAttemptsSeen ==
    /\ last.op = "read_row"
    /\ ~last.hit
    /\ RequestAttempts(last.io) = TPC_READ_RETRIES
    /\ last.ret = -EBUSY

\* the call is a try_read_row whose caller's previous call was a successful
\* prefetch_row, made less than the TTL before (last.pj0 is the timestamp
\* that prefetch stored, the clock value of its call)
TryFollowsPrefetch ==
    /\ last.op = "try_read_row"
    /\ last.chain.op = "prefetched"
    /\ last.now < last.pj0 + TPC_PREFETCH_TIMEOUT
SameAnchors(a, b) == a.val[0] = b.val[0] /\ a.val[15] = b.val[15]

\* C32: a try_read_row(R) that follows a successful prefetch_row(R) within
\* the TTL, with no operation in between, never returns -ENODATA, and a
\* try_read_row(R') with R' differing from R in slot 0 or slot 15 always
\* returns -ENODATA.  Checked under SpecRow.
FetchedWithinTTL ==
    TryFollowsPrefetch =>
        IF SameAnchors(last.chain.args, last.args)
        THEN last.ret # -ENODATA
        ELSE last.ret = -ENODATA

\* the engine as it is, but with the prefetch entry junk, or empty
EngJunk == [Eng EXCEPT !.prefetch_jiffies = TPC_PREFETCH_JUNK]
EngNone == [Eng EXCEPT !.prefetch_jiffies = TPC_PREFETCH_NONE]
\* two entries that are both junk or empty, or else the same
EntryAlike(s, t) ==
    /\ \/ s.prefetch_jiffies = t.prefetch_jiffies
       \/ {s.prefetch_jiffies, t.prefetch_jiffies}
              \subseteq {TPC_PREFETCH_JUNK, TPC_PREFETCH_NONE}
    /\ s.prefetch_arg0 = t.prefetch_arg0
    /\ s.prefetch_argF = t.prefetch_argF
\* two results that differ in nothing but the messages logged and
\* junk-for-empty
AlikeButLog(a, b) ==
    /\ a.ret = b.ret
    /\ a.s.io = b.s.io
    /\ a.s.ec = b.s.ec
    /\ EntryAlike(a.s, b.s)

\* C33: in every reachable state of the EC, of the anchors and of the
\* clock, each row operation started with the entry junk and started with
\* the entry empty gives the same result, the same response row, the same
\* sequence of register accesses and delays, leaves the EC in the same
\* state, and leaves entries that are again the same or junk for empty.
\* (By induction the same holds for every sequence of operations.)  Only
\* the log may differ.  Checked under SpecOne, for every request of
\* Requests in each of its states.
JunkEmptyAlike ==
    \A args \in Requests :
        /\ AlikeButLog(thinkpad_ec_prefetch_row(EngJunk, args),
                       thinkpad_ec_prefetch_row(EngNone, args))
        /\ AlikeButLog([s |-> thinkpad_ec_invalidate(EngJunk), ret |-> 0],
                       [s |-> thinkpad_ec_invalidate(EngNone), ret |-> 0])
        /\ \A mask \in DataMasks :
              LET rj == thinkpad_ec_read_row(EngJunk, args, FreshData(mask))
                  rn == thinkpad_ec_read_row(EngNone, args, FreshData(mask))
                  tj == thinkpad_ec_try_read_row(EngJunk, args,
                                                 FreshData(mask))
                  tn == thinkpad_ec_try_read_row(EngNone, args,
                                                 FreshData(mask))
              IN  /\ AlikeButLog(rj, rn) /\ rj.data = rn.data
                  /\ AlikeButLog(tj, tn) /\ tj.data = tn.data

\* with the entry empty, a request that finds a readout pending on a wedged
\* EC logs a warning, which it does not with the entry junk
JunkEmptyAlikeSeen ==
    /\ last.op = "prefetch_row"
    /\ last.pj0 = TPC_PREFETCH_NONE
    /\ last.ec0.stuck >= 0
    /\ last.ret = -EBUSY
    /\ Logged(last.log, "readout already pending")
    /\ ~Logged(thinkpad_ec_prefetch_row(EngJunk, last.args).s.log,
               "readout already pending")

\* the engine as it is, with the debug toggle on (module parameter debug=1)
EngDebug == [Eng EXCEPT !.tp_debug = TRUE]
\* the result r of a row operation is logged if it had to be: a protocol
\* violation, or (loud) any failure at all
LoggedIfFailed(r, loud) ==
    (r.ret = -EIO \/ (loud /\ r.ret # 0)) => Len(r.s.log) >= 1
\* results a (toggle off) and b (toggle on) differ in nothing but the log,
\* and both log what they have to
ToggleOnlyLogs(a, b, loud) ==
    /\ a.ret = b.ret
    /\ a.s.io = b.s.io
    /\ a.s.ec = b.s.ec
    /\ a.s.prefetch_jiffies = b.s.prefetch_jiffies
    /\ a.s.prefetch_arg0 = b.s.prefetch_arg0
    /\ a.s.prefetch_argF = b.s.prefetch_argF
    /\ LoggedIfFailed(a, loud)
    /\ LoggedIfFailed(b, loud)

\* C34: in every reachable state, with the debug toggle off and with it
\* on: a prefetch_row or try_read_row that returns -EIO (a protocol
\* violation of the request or of the read sub-protocol) and a read_row
\* that returns any error, retry exhaustion included, log at least one
\* message; and the two runs agree in the result, the response row, the
\* register accesses, the EC and the prefetch entry.  The one message under
\* the toggle, that of an interrupted thinkpad_ec_lock, changes nothing but
\* the log.  Checked under SpecGlitch.
FailuresAlwaysLogged ==
    /\ \A args \in Requests :
          /\ ToggleOnlyLogs(thinkpad_ec_prefetch_row(Eng, args),
                            thinkpad_ec_prefetch_row(EngDebug, args), FALSE)
          /\ \A mask \in DataMasks :
                LET a == thinkpad_ec_try_read_row(Eng, args, FreshData(mask))
                    b == thinkpad_ec_try_read_row(EngDebug, args,
                                                  FreshData(mask))
                IN  ToggleOnlyLogs(a, b, FALSE) /\ a.data = b.data
    /\ \A mask \in DataMasks :
          LET a == thinkpad_ec_read_row(Eng, AccelArgs, FreshData(mask))
              b == thinkpad_ec_read_row(EngDebug, AccelArgs, FreshData(mask))
          IN  ToggleOnlyLogs(a, b, TRUE) /\ a.data = b.data
    /\ \A r \in {0, -EINTR} :
          /\ LockMessage(Eng, r) = [Eng EXCEPT !.log = LockMessage(Eng, r).log]
          /\ LockMessage(EngDebug, r) =
                [EngDebug EXCEPT !.log = LockMessage(EngDebug, r).log]

\* read_row ran out of read attempts on a busy EC: the only message is its
\* own
FailuresAlwaysLoggedSeen ==
    /\ last.op = "read_row"
    /\ last.ret = -EBUSY
    /\ ~Logged(last.log, "failed requesting row")
    /\ last.log = <<"failed waiting for data">>
    /\ ReadAttemptsFrom(last.io, FirstWrite(last.io)) = TPC_READ_RETRIES

\* the terminator byte a request sends (part of what the EC answers to)
EffectiveEnd(args) == IF MaskBit(args.mask, 15) THEN args.val[15] ELSE 1

\* C35: whenever read_row or try_read_row takes request R for fetched right
\* after a successful prefetch_row(P), P sent the function byte and the
\* terminator byte that R would send.  Checked under SpecKey.
KeyCoversRequest ==
    (/\ last.op \in {"read_row", "try_read_row"}
     /\ last.hit
     /\ last.chain.op = "prefetched") =>
        /\ last.chain.args.val[0] = last.args.val[0]
        /\ EffectiveEnd(last.chain.args) = EffectiveEnd(last.args)

\* C37: a prefetch_row(R) that returns 0 stores a timestamp that is neither
\* TPC_PREFETCH_NONE nor TPC_PREFETCH_JUNK, so that R counts as fetched at
\* the clock value of the call.  Checked under SpecRow, whose clock starts
\* at INITIAL_JIFFIES.
SentinelSeparation ==
    (last.op = "prefetch_row" /\ last.ret = 0) =>
        /\ prefetch_jiffies \notin {TPC_PREFETCH_NONE, TPC_PREFETCH_JUNK}
        /\ thinkpad_ec_is_row_fetched([Eng EXCEPT !.now = last.now],
                                      last.args)


\* the prefetch entry is neither junk nor empty
EntryHeld == prefetch_jiffies \notin {TPC_PREFETCH_NONE, TPC_PREFETCH_JUNK}
\* the EC has taken a whole request and its reply has not been read
ReplyPending == ec.phase \in {"ibf", "quiet", "reply", "ready"}

\* C36: between calls of the row operations, whenever the prefetch entry is
\* neither junk nor empty, the last thing the EC has taken is a whole
\* request with the function byte and the terminator byte of the entry's
\* anchors, and its reply has not been read or drained.  Checked under
\* SpecKey, against a healthy EC.
CacheCoherent ==
    EntryHeld =>
        /\ ReplyPending
        /\ ec.fn = prefetch_arg0
        /\ ec.term = prefetch_argF


\* the SMAPI return codes that mean busy: 0x92, 0xa1, 0xa6
SmapiBusyCodes == {146, 161, 166}

\* C39: a pass of smapi_request whose SMI gave return code rc yields 0 only
\* for rc = 0x00 and -EBUSY for the busy codes; smapi_request goes round
\* again only after -EBUSY and makes at most SMAPI_MAX_RETRIES passes, and
\* each pass has released the lock it took.  Checked under SpecDirect.
SmapiMapping ==
    [][\A rc \in SmapiCodes :
          SmapiOut(rc) =>
              /\ ret'.val = 0 <=> rc = 0
              /\ rc \in SmapiBusyCodes => ret'.val = -EBUSY
              /\ count'["smapi"] # 0 => ret'.val = -EBUSY
              /\ count'["smapi"] < SMAPI_MAX_RETRIES
              /\ "smapi" \in held /\ "smapi" \notin held']_vars


AttachOutcome ==
    /\ thinkpad_ec_mutex' = 1
    /\ held' = {}
    /\ region' <=> ret'.val = 0
\* thinkpad_ec_init ran the EC test: it set the entry to junk and made the
\* accesses of one read_row of the test request, and failed with -ENXIO,
\* leaving the ports, unless the test returned 0
AttachTested ==
    /\ prefetch_jiffies' = TPC_PREFETCH_JUNK
    /\ last'.io = thinkpad_ec_read_row(EngJunk, TestArgs, TestData).s.io
    /\ last'.io # <<>>
    /\ ret'.val \in {0, -ENXIO}
    /\ ret'.val = 0 <=>
          thinkpad_ec_read_row(EngJunk, TestArgs, TestData).ret = 0
\* thinkpad_ec_init touched no port and left the entry alone
AttachUntouched ==
    /\ last'.io = <<>>
    /\ UNCHANGED engine
    /\ ~region'

\* C40 as stated: without an EC thinkpad_ec_init fails with -ENODEV and
\* touches nothing; otherwise it claims the ports and runs the EC test.
AttachAlwaysTests ==
    [][\A dmi \in BOOLEAN, free \in BOOLEAN :
          ModuleInit(dmi, free) =>
              /\ IF ~dmi
                 THEN ret'.val = -ENODEV /\ AttachUntouched
                 ELSE AttachTested
              /\ AttachOutcome]_vars

\* C40: without an EC thinkpad_ec_init fails with -ENODEV and touches no
\* port; with an EC but the ports claimed by someone else it fails with
\* -ENXIO and touches no port either; otherwise it claims the ports, sets
\* the entry to junk and runs one read_row of the test request under the
\* lock, and fails with -ENXIO, releasing the ports, if that fails.  On
\* every return the lock is free and the ports are held exactly if it
\* returned 0.  Checked under SpecInit.
AttachTestsIfClaimed ==
    [][\A dmi \in BOOLEAN, free \in BOOLEAN :
          ModuleInit(dmi, free) =>
              /\ IF ~dmi
                 THEN ret'.val = -ENODEV /\ AttachUntouched
                 ELSE IF ~free
                 THEN ret'.val = -ENXIO /\ AttachUntouched
                 ELSE AttachTested
              /\ AttachOutcome]_vars

\* the EC test failed against a wedged EC and the ports were released
AttachTestsIfClaimedSeen ==
    /\ last.op = "init"
    /\ last.ret = -ENXIO
    /\ last.io # <<>>
    /\ ~region
    /\ thinkpad_ec_mutex = 1

====
